---- MODULE Spec2Model ----
(***************************************************************************)
(* Ledger client and token whitelist of the XRPL portfolio monitor         *)
(* (frontend/src/lib/xrpl.ts and frontend/src/lib/tokenConfig.ts), and the *)
(* two views that fetch through them (TokenList, TokenMetrics).            *)
(*                                                                         *)
(* The address pattern is evaluated on the characters of a string, which   *)
(* AddressChars lists for every address the model uses.                    *)
(***************************************************************************)
EXTENDS Integers, Sequences, FiniteSets, TLC

VARIABLES
    currentServerIndex,  \* module-level cursor into XRPL_SERVERS (0-based)
    call,                \* the fetch call in progress or last finished
    storage,             \* localStorage item under STORAGE_KEY
    DEFAULT_TOKENS,      \* the module-level default array (a mutable JS array)
    storeOp,             \* the last whitelist-store operation and its outcome
    codec,               \* the last codec call: function, argument, result
    match,               \* the last isTokenWhitelisted call and its locals
    tokenList,           \* the TokenList component: its state and its loadTokens run
    tokenMetrics         \* the TokenMetrics component: its state and its two runs

vars == <<currentServerIndex, call, storage, DEFAULT_TOKENS, storeOp, codec, match,
          tokenList, tokenMetrics>>
rpcVars == <<currentServerIndex, call>>
storeVars == <<storage, DEFAULT_TOKENS, storeOp>>
codecVars == <<codec, match>>
viewVars == <<tokenList, tokenMetrics>>

----------------------------------------------------------------------------
(* Address validator *)

\* the character class [1-9A-HJ-NP-Za-km-z] of the address pattern
Base58Body ==
    {"1","2","3","4","5","6","7","8","9",
     "A","B","C","D","E","F","G","H","J","K","L","M","N",
     "P","Q","R","S","T","U","V","W","X","Y","Z",
     "a","b","c","d","e","f","g","h","i","j","k",
     "m","n","o","p","q","r","s","t","u","v","w","x","y","z"}

\* sample addresses: the monitored wallets and issuers of the repository, and
\* strings the pattern rejects ("abc", "", a body holding 0, a 24-character one)
Addr_GreedyIssuer == "rdRvw4pKmEtSnz3cjXBL6HLJJmejtkoQ4"
Addr_JewNomicaNIssuer == "rEz5RdLqRex7YxYZ1bEskCDHbvKy3zcUnq"
Addr_AscIssuer == "r3qWgpz2ry3BhcRJ8JE6rxM8esrfhuKp4R"
Addr_DevWallet == "rw3DPxgusRrvdsbXSjHdXD14ogkNidTTRx"
Addr_abc == "abc"
Addr_ZeroInBody == "rdRvw4pKmEtSnz3cjXBL6HLJJmejtkoQ0"
Addr_TooShort == "rdRvw4pKmEtSnz3cjXBL6HLJ"
Addr_empty == ""

\* the characters of each address string, first to last
AddressChars ==
    "rdRvw4pKmEtSnz3cjXBL6HLJJmejtkoQ4" :>
         <<"r","d","R","v","w","4","p","K","m","E","t","S","n","z","3","c","j","X","B","L","6","H","L","J","J","m","e","j","t","k","o","Q","4">>
    @@ "rEz5RdLqRex7YxYZ1bEskCDHbvKy3zcUnq" :>
         <<"r","E","z","5","R","d","L","q","R","e","x","7","Y","x","Y","Z","1","b","E","s","k","C","D","H","b","v","K","y","3","z","c","U","n","q">>
    @@ "r3qWgpz2ry3BhcRJ8JE6rxM8esrfhuKp4R" :>
         <<"r","3","q","W","g","p","z","2","r","y","3","B","h","c","R","J","8","J","E","6","r","x","M","8","e","s","r","f","h","u","K","p","4","R">>
    @@ "rw3DPxgusRrvdsbXSjHdXD14ogkNidTTRx" :>
         <<"r","w","3","D","P","x","g","u","s","R","r","v","d","s","b","X","S","j","H","d","X","D","1","4","o","g","k","N","i","d","T","T","R","x">>
    @@ "abc" :>
         <<"a","b","c">>
    @@ "rdRvw4pKmEtSnz3cjXBL6HLJJmejtkoQ0" :>
         <<"r","d","R","v","w","4","p","K","m","E","t","S","n","z","3","c","j","X","B","L","6","H","L","J","J","m","e","j","t","k","o","Q","0">>
    @@ "rdRvw4pKmEtSnz3cjXBL6HLJ" :>
         <<"r","d","R","v","w","4","p","K","m","E","t","S","n","z","3","c","j","X","B","L","6","H","L","J">>
    @@ "" :>
         <<>>

\* /^r[1-9A-HJ-NP-Za-km-z]{24,34}$/.test(address)
validateXRPLAddress(address) ==
    LET chars == AddressChars[address] IN
    /\ Len(chars) >= 1
    /\ chars[1] = "r"
    /\ Len(chars) - 1 >= 24
    /\ Len(chars) - 1 <= 34
    /\ \A k \in 2..Len(chars) : chars[k] \in Base58Body

----------------------------------------------------------------------------
(* Token whitelist store *)

Token(c, i, n) == [currency |-> c, issuer |-> i, customName |-> n]

\* the leading entries of the DEFAULT_TOKENS literal, in its order
DefaultTokenEntries ==
    <<
      Token("GreedyJEW",
            Addr_GreedyIssuer,
            "GreedyJEW Token"),
      Token("JewNomicaN",
            Addr_JewNomicaNIssuer,
            "JewNomicaN"),
      Token("HEBROID",
            Addr_GreedyIssuer,
            "HEBROID"),
      Token("ASC",
            Addr_AscIssuer,
            "Ascension")
    >>

\* how many entries of the literal the model carries
NumDefaults == 2

\* DEFAULT_TOKENS as the module is loaded
CanonicalDefaults == SubSeq(DefaultTokenEntries, 1, NumDefaults)

\* tokens the user enters in the configuration dialog: the first default entry
\* under another display name, an entry of their own that shares its currency
\* with a default entry, and an entry whose issuer is no address
RenamedDefault == Token(DefaultTokenEntries[1].currency,
                        DefaultTokenEntries[1].issuer, "Greedy")
UserToken1 == Token(DefaultTokenEntries[1].currency, Addr_DevWallet, "Copy")
BadIssuerToken == Token("USD", Addr_abc, "Dollar")
InputTokens == {RenamedDefault, UserToken1, BadIssuerToken}

\* the keys the dialog can name: those of the listed entries
InputKeys ==
    {<<tk.currency, tk.issuer>> :
        tk \in InputTokens \cup {CanonicalDefaults[k] : k \in 1..NumDefaults}}

\* localStorage.getItem(STORAGE_KEY): absent, not deserializable, or the
\* JSON text of an array of entries
NoItem == [kind |-> "absent", tokens |-> <<>>]
CorruptItem == [kind |-> "unparseable", tokens |-> <<>>]

\* JSON.stringify(tokens): the text holds the entries' fields in order
JSONstringify(tokens) == [kind |-> "json", tokens |-> tokens]

\* JSON.parse(stored): a fresh array with the entries of the text
JSONparse(stored) == stored.tokens

\* faulty variant: the issuer is compared with the currency, so no entry matches
SomeSameKeyIssuerTypo(tokens, currency, issuer) ==
    \E k \in 1..Len(tokens) :
        tokens[k].currency = currency /\ tokens[k].issuer = currency

\* tokens.some(t => t.currency === currency && t.issuer === issuer)
SomeSameKey(tokens, currency, issuer) ==
    \E k \in 1..Len(tokens) :
        tokens[k].currency = currency /\ tokens[k].issuer = issuer

\* the forEach of the merge: every default entry, in order, is pushed onto
\* merged unless merged holds its key already
RECURSIVE MergeDefaults(_, _, _)
MergeDefaults(merged, defaults, k) ==
    IF k > Len(defaults) THEN merged
    ELSE IF SomeSameKey(merged, defaults[k].currency, defaults[k].issuer)
         THEN MergeDefaults(merged, defaults, k + 1)
         ELSE MergeDefaults(Append(merged, defaults[k]), defaults, k + 1)

\* saveTokenConfig: the stored item after the call, and whether it threw
\* (setItem rejects the write when canWrite is false)
saveTokenConfig(stored, tokens, canWrite) ==
    IF canWrite
    THEN [storage |-> JSONstringify(tokens), threw |-> FALSE]
    ELSE [storage |-> stored, threw |-> TRUE]

\* loadTokenConfig: the returned array, whether it is the DEFAULT_TOKENS
\* array itself (and not a fresh one), the stored item after the call, and
\* whether the call reached localStorage.setItem
loadTokenConfig(stored, defaults, canWrite) ==
    IF stored.kind = "absent"
    THEN \* a throwing save lands in the catch, which returns DEFAULT_TOKENS too
         [tokens |-> defaults, isDefaultArray |-> TRUE, wrote |-> TRUE,
          storage |-> saveTokenConfig(stored, defaults, canWrite).storage]
    ELSE IF stored.kind = "unparseable"
    THEN [tokens |-> defaults, isDefaultArray |-> TRUE, wrote |-> FALSE,
          storage |-> stored]
    ELSE LET parsed == JSONparse(stored) IN
         IF Len(parsed) < Len(defaults)
         THEN LET merged == MergeDefaults(parsed, defaults, 1)
                  saved == saveTokenConfig(stored, merged, canWrite)
              IN  IF saved.threw
                  THEN [tokens |-> defaults, isDefaultArray |-> TRUE,
                        wrote |-> TRUE, storage |-> stored]
                  ELSE [tokens |-> merged, isDefaultArray |-> FALSE,
                        wrote |-> TRUE, storage |-> saved.storage]
         ELSE [tokens |-> parsed, isDefaultArray |-> FALSE, wrote |-> FALSE,
               storage |-> stored]

\* tokens.filter(t => !(t.currency === currency && t.issuer === issuer))
RECURSIVE FilterOutKey(_, _, _)
FilterOutKey(tokens, currency, issuer) ==
    IF tokens = <<>> THEN <<>>
    ELSE LET rest == FilterOutKey(Tail(tokens), currency, issuer) IN
         IF Head(tokens).currency = currency /\ Head(tokens).issuer = issuer
         THEN rest
         ELSE <<Head(tokens)>> \o rest

\* faulty variant: the first position is reported wherever the key is found
FindIndexAlwaysFirst(tokens, currency, issuer) ==
    IF SomeSameKey(tokens, currency, issuer) THEN 1 ELSE 0

\* tokens.findIndex(t => t.currency === c && t.issuer === i), 1-based; 0 for -1
FindIndex(tokens, currency, issuer) ==
    IF SomeSameKey(tokens, currency, issuer)
    THEN CHOOSE k \in 1..Len(tokens) :
            /\ tokens[k].currency = currency /\ tokens[k].issuer = issuer
            /\ \A j \in 1..(k - 1) :
                  ~(tokens[j].currency = currency /\ tokens[j].issuer = issuer)
    ELSE 0

\* the last store call: its name, the key it was given, the entry it was given
\* to put in place (updateToken only) and how it ended
NoToken == Token("", "", "")

Op(name, currency, issuer, outcome) ==
    [op |-> name, currency |-> currency, issuer |-> issuer,
     newToken |-> NoToken, outcome |-> outcome]

UpdateOp(old, newToken, outcome) ==
    [Op("update", old[1], old[2], outcome) EXCEPT !.newToken = newToken]

StoreInit ==
    /\ storage \in {NoItem, CorruptItem, JSONstringify(<<>>),
                    JSONstringify(<<UserToken1>>)}
    /\ DEFAULT_TOKENS = CanonicalDefaults
    /\ storeOp = Op("none", "", "", "ok")

\* the dialog opens, or a view asks for the whitelist
LoadTokenConfig ==
    \E canWrite \in BOOLEAN :
        LET l == loadTokenConfig(storage, DEFAULT_TOKENS, canWrite) IN
        /\ storage' = l.storage
        /\ storeOp' = Op("load", "", "", "ok")
        /\ UNCHANGED <<DEFAULT_TOKENS, rpcVars, codecVars, viewVars>>

\* faulty variant: the grown list is saved before the duplicate check rejects it
AddTokenSavesBeforeCheck ==
    \E token \in InputTokens, w1 \in BOOLEAN, w2 \in BOOLEAN :
        LET l == loadTokenConfig(storage, DEFAULT_TOKENS, w1)
            pushed == Append(l.tokens, token)
            saved == saveTokenConfig(l.storage, pushed, w2)
        IN
        IF ~validateXRPLAddress(token.issuer)
        THEN /\ storage' = l.storage
             /\ storeOp' = Op("add", token.currency, token.issuer, "InvalidAddress")
             /\ UNCHANGED <<DEFAULT_TOKENS, rpcVars, codecVars, viewVars>>
        ELSE /\ DEFAULT_TOKENS' = IF l.isDefaultArray THEN pushed ELSE DEFAULT_TOKENS
             /\ storage' = saved.storage
             /\ storeOp' = Op("add", token.currency, token.issuer,
                              IF SomeSameKey(l.tokens, token.currency, token.issuer)
                              THEN "DuplicateToken"
                              ELSE IF saved.threw THEN "PersistenceError" ELSE "ok")
             /\ UNCHANGED <<rpcVars, codecVars, viewVars>>

\* addToken(token)
AddToken ==
    \E token \in InputTokens, w1 \in BOOLEAN, w2 \in BOOLEAN :
        LET l == loadTokenConfig(storage, DEFAULT_TOKENS, w1)
            pushed == Append(l.tokens, token)
            saved == saveTokenConfig(l.storage, pushed, w2)
        IN
        IF ~validateXRPLAddress(token.issuer)
        THEN /\ storage' = l.storage
             /\ storeOp' = Op("add", token.currency, token.issuer, "InvalidAddress")
             /\ UNCHANGED <<DEFAULT_TOKENS, rpcVars, codecVars, viewVars>>
        ELSE IF SomeSameKey(l.tokens, token.currency, token.issuer)
        THEN /\ storage' = l.storage
             /\ storeOp' = Op("add", token.currency, token.issuer, "DuplicateToken")
             /\ UNCHANGED <<DEFAULT_TOKENS, rpcVars, codecVars, viewVars>>
        ELSE \* tokens.push(token) grows DEFAULT_TOKENS when tokens is that array
             /\ DEFAULT_TOKENS' = IF l.isDefaultArray THEN pushed ELSE DEFAULT_TOKENS
             /\ storage' = saved.storage
             /\ storeOp' = Op("add", token.currency, token.issuer,
                              IF saved.threw THEN "PersistenceError" ELSE "ok")
             /\ UNCHANGED <<rpcVars, codecVars, viewVars>>

\* removeToken(currency, issuer)
RemoveToken ==
    \E key \in InputKeys, w1 \in BOOLEAN, w2 \in BOOLEAN :
        LET l == loadTokenConfig(storage, DEFAULT_TOKENS, w1)
            filtered == FilterOutKey(l.tokens, key[1], key[2])
            saved == saveTokenConfig(l.storage, filtered, w2)
        IN
        /\ storage' = saved.storage
        /\ storeOp' = Op("remove", key[1], key[2],
                         IF saved.threw THEN "PersistenceError" ELSE "ok")
        /\ UNCHANGED <<DEFAULT_TOKENS, rpcVars, codecVars, viewVars>>

\* updateToken(oldCurrency, oldIssuer, newToken)
UpdateToken ==
    \E old \in InputKeys, newToken \in InputTokens,
       w1 \in BOOLEAN, w2 \in BOOLEAN :
        LET l == loadTokenConfig(storage, DEFAULT_TOKENS, w1)
            index == FindIndex(l.tokens, old[1], old[2])
            isDuplicate ==
                \E k \in 1..Len(l.tokens) :
                    /\ k # index
                    /\ l.tokens[k].currency = newToken.currency
                    /\ l.tokens[k].issuer = newToken.issuer
            replaced == [l.tokens EXCEPT ![index] = newToken]
            saved == saveTokenConfig(l.storage, replaced, w2)
        IN
        IF ~validateXRPLAddress(newToken.issuer)
        THEN /\ storeOp' = UpdateOp(old, newToken, "InvalidAddress")
             /\ UNCHANGED <<storage, DEFAULT_TOKENS, rpcVars, codecVars, viewVars>>
        ELSE IF index = 0
        THEN /\ storage' = l.storage
             /\ storeOp' = UpdateOp(old, newToken, "NotFound")
             /\ UNCHANGED <<DEFAULT_TOKENS, rpcVars, codecVars, viewVars>>
        ELSE IF isDuplicate
        THEN /\ storage' = l.storage
             /\ storeOp' = UpdateOp(old, newToken, "DuplicateToken")
             /\ UNCHANGED <<DEFAULT_TOKENS, rpcVars, codecVars, viewVars>>
        ELSE \* tokens[index] = newToken writes into DEFAULT_TOKENS when tokens
             \* is that array
             /\ DEFAULT_TOKENS' = IF l.isDefaultArray THEN replaced ELSE DEFAULT_TOKENS
             /\ storage' = saved.storage
             /\ storeOp' = UpdateOp(old, newToken,
                              IF saved.threw THEN "PersistenceError" ELSE "ok")
             /\ UNCHANGED <<rpcVars, codecVars, viewVars>>

\* the page is loaded again: the module's arrays are built anew, localStorage stays
PageReload ==
    /\ DEFAULT_TOKENS' = CanonicalDefaults
    /\ storeOp' = Op("none", "", "", "ok")
    /\ UNCHANGED <<storage, rpcVars, codecVars, viewVars>>

StoreNext ==
    \/ LoadTokenConfig
    \/ AddToken
    \/ RemoveToken
    \/ UpdateToken
    \/ PageReload

----------------------------------------------------------------------------
(* Ledger RPC client *)

XRPL_SERVERS ==
    <<"https://xrplcluster.com",
      "https://s1.ripple.com:51234",
      "https://s2.ripple.com:51234">>

\* the defaults of retryWithBackoff's parameters; no caller passes others
maxRetries == 3
initialDelay == 1000

\* the addresses a fetch is called with
Accounts ==
    {Addr_GreedyIssuer, Addr_DevWallet,
     Addr_abc, Addr_empty, Addr_ZeroInBody, Addr_TooShort}

FetchFunctions == {"fetchAccountInfo", "fetchAccountLines", "fetchAccountNFTs"}

\* what the transport can answer to one fetch(): the promise rejects (with a
\* TypeError whose message names fetch, or with another one), or a response
\* arrives with a status and a body
Response(kind, status, body, present, value) ==
    [kind |-> kind, status |-> status, body |-> body,
     present |-> present, value |-> value]

NoResponse == Response("none", 0, "none", FALSE, <<>>)

\* a trust line of an account_lines result, with the fields the views read
TrustLine(currency, account, balance, limit) ==
    [account |-> account, balance |-> balance, currency |-> currency,
     limit |-> limit]

\* account_lines results: a line in a 160-bit currency code next to a line in
\* a standard code of another issuer, and a single line in a standard code
\* with no balance
SampleLinesHex ==
    <<TrustLine("4772656564794A45570000000000000000000000", Addr_GreedyIssuer,
                "1000", "1000000"),
      TrustLine("USD", Addr_DevWallet, "5", "100")>>

SampleLinesStandard ==
    <<TrustLine("ABC", Addr_GreedyIssuer, "0", "100")>>

\* the payloads of a result: the field the caller reads is absent, or holds one
\* of these values
ResultValues(fn) ==
    CASE fn = "fetchAccountInfo" ->
            {[Account |-> "rdRvw4pKmEtSnz3cjXBL6HLJJmejtkoQ4", Balance |-> "25000000"]}
      [] fn = "fetchAccountLines" -> {<<>>, SampleLinesHex, SampleLinesStandard}
      [] fn = "fetchAccountNFTs" -> {<<"nft1">>}

MissingValue(fn) ==
    IF fn = "fetchAccountInfo" THEN [Account |-> "", Balance |-> ""] ELSE <<>>

Responses(fn) ==
    {Response("reject", 0, "fetch", FALSE, MissingValue(fn)),
     Response("reject", 0, "other", FALSE, MissingValue(fn))}
    \cup {Response("http", st, "text", FALSE, MissingValue(fn)) : st \in {500, 503}}
    \cup {Response("http", 200, b, FALSE, MissingValue(fn)) :
            b \in {"notJson", "noResult", "apiError", "result"}}
    \cup {Response("http", 200, "result", TRUE, v) : v \in ResultValues(fn)}

\* faulty variant: no response counts as a success
ResponseOkNever(resp) == FALSE

\* response.ok
ResponseOk(resp) == resp.status >= 200 /\ resp.status <= 299

Error(type, detail) == [type |-> type, detail |-> detail]
NoError == Error("none", "")

\* thrown by the three fetch functions before anything else
EntryAddressError == Error("InvalidAddress", "Invalid XRPL address")
\* thrown by makeXRPLRequest
RequestAddressError == Error("InvalidAddress", "Invalid XRPL address format")
NetworkError(server) == Error("NetworkError", server)
ServerError(status) == Error("ServerError", ToString(status))
ApiError(msg) == Error("ApiError", msg)
NoResultError == Error("MalformedResponse", "no result field")
MissingFieldError == Error("MissingField", "missing account_data field")

IdleCall ==
    [fn |-> "none", account |-> "", pc |-> "idle", attempt |-> 0,
     server |-> 0, response |-> NoResponse,
     sent |-> <<>>, outcomes |-> <<>>, waits |-> <<>>,
     lastError |-> NoError, error |-> NoError,
     returned |-> FALSE, result |-> <<>>]

\* one finished attempt, as the console log shows it: the answer, the error
\* the attempt threw (NoError when it returned), the cursor when it ended
Outcome(resp, error, cursor) == [resp |-> resp, error |-> error, cursor |-> cursor]

\* faulty variant: the NFT fetch rethrows like the other two
FetchCatchRethrows(c, error) == [c EXCEPT !.pc = "raised", !.error = error]

\* the catch of each fetch function, reached when the try block throws
FetchCatch(c, error) ==
    IF c.fn = "fetchAccountNFTs"
    THEN [c EXCEPT !.pc = "returned", !.returned = TRUE, !.result = <<>>]
    ELSE [c EXCEPT !.pc = "raised", !.error = error]

\* the statements after the retry wrapper returned result
FetchBody(c, resp) ==
    IF c.fn = "fetchAccountInfo"
    THEN IF ~resp.present
         THEN FetchCatch(c, MissingFieldError)
         ELSE [c EXCEPT !.pc = "returned", !.returned = TRUE, !.result = resp.value]
    ELSE \* result.lines || [], result.account_nfts || []
         [c EXCEPT !.pc = "returned", !.returned = TRUE,
                   !.result = IF resp.present THEN resp.value ELSE <<>>]

\* faulty variant: lastError keeps the first error (lastError ??= error)
RetryCatchKeepsFirstError(c, error) ==
    LET kept == IF c.lastError = NoError THEN error ELSE c.lastError
        c1 == [c EXCEPT !.lastError = kept]
    IN  IF c.attempt < maxRetries - 1
        THEN [c1 EXCEPT !.waits = Append(@, initialDelay * (2 ^ c.attempt)),
                        !.pc = "backoff"]
        ELSE FetchCatch([c1 EXCEPT !.attempt = @ + 1], kept)

\* faulty variant: the exponent counts the failed attempts (2 ^ (attempt + 1))
RetryCatchDelayShifted(c, error) ==
    LET c1 == [c EXCEPT !.lastError = error] IN
    IF c.attempt < maxRetries - 1
    THEN [c1 EXCEPT !.waits = Append(@, initialDelay * (2 ^ (c.attempt + 1))),
                    !.pc = "backoff"]
    ELSE FetchCatch([c1 EXCEPT !.attempt = @ + 1], error)

\* faulty variant: the first error ends the loop
RetryCatchNoRetry(c, error) ==
    FetchCatch([c EXCEPT !.lastError = error, !.attempt = @ + 1], error)

\* faulty variant: an API error payload is not retried
RetryCatchApiErrorFatal(c, error) ==
    LET c1 == [c EXCEPT !.lastError = error] IN
    IF c.attempt < maxRetries - 1 /\ error.type # "ApiError"
    THEN [c1 EXCEPT !.waits = Append(@, initialDelay * (2 ^ c.attempt)),
                    !.pc = "backoff"]
    ELSE FetchCatch([c1 EXCEPT !.attempt = @ + 1], error)

\* the catch of retryWithBackoff's loop, and the throw after the loop
RetryCatch(c, error) ==
    LET c1 == [c EXCEPT !.lastError = error] IN
    IF c.attempt < maxRetries - 1
    THEN [c1 EXCEPT !.waits = Append(@, initialDelay * (2 ^ c.attempt)),
                    !.pc = "backoff"]
    ELSE FetchCatch([c1 EXCEPT !.attempt = @ + 1], error)

\* an attempt ends by throwing error
AttemptThrows(c, resp, error, cursor) ==
    RetryCatch([c EXCEPT !.outcomes = Append(@, Outcome(resp, error, cursor)),
                         !.response = NoResponse],
               error)

\* an attempt ends by returning data.result
AttemptReturns(c, resp, cursor) ==
    FetchBody([c EXCEPT !.outcomes = Append(@, Outcome(resp, NoError, cursor)),
                        !.response = NoResponse],
              resp)

\* faulty variant: the cursor is left where it is
NextServerIndexStays(k) == k

\* faulty variant: the cursor wraps round to the first server
NextServerIndexWraps(k) == (k + 1) % Len(XRPL_SERVERS)

\* the cursor after a non-success status
NextServerIndex(k) == IF k < Len(XRPL_SERVERS) - 1 THEN k + 1 ELSE k

\* faulty variant: the fetch functions do not validate the address themselves
FetchEntryNoGate(fn, account) ==
    [IdleCall EXCEPT !.fn = fn, !.account = account, !.pc = "attempt"]

\* the head of the three fetch functions
FetchEntry(fn, account) ==
    IF ~validateXRPLAddress(account)
    THEN [IdleCall EXCEPT !.fn = fn, !.account = account,
                          !.pc = "raised", !.error = EntryAddressError]
    ELSE [IdleCall EXCEPT !.fn = fn, !.account = account, !.pc = "attempt"]

RpcInit ==
    /\ currentServerIndex = 0
    /\ call = IdleCall

\* a component calls one of the fetch functions, having awaited the one before
\* (WalletHoldings.loadWalletData, TokenList.loadTokens)
StartCall ==
    \E fn \in FetchFunctions, account \in Accounts :
        /\ call.pc \in {"idle", "returned", "raised"}
        /\ call' = FetchEntry(fn, account)
        /\ UNCHANGED <<currentServerIndex, storeVars, codecVars, viewVars>>

\* makeXRPLRequest up to the fetch(): the server is read off the cursor, a
\* non-empty address is validated once more, the request is sent
MakeRequest ==
    /\ call.pc = "attempt"
    /\ IF call.account # "" /\ ~validateXRPLAddress(call.account)
       THEN call' = AttemptThrows([call EXCEPT !.server = currentServerIndex],
                                  NoResponse, RequestAddressError,
                                  currentServerIndex)
       ELSE call' = [call EXCEPT !.pc = "fetching",
                                 !.server = currentServerIndex,
                                 !.sent = Append(@, currentServerIndex)]
    /\ UNCHANGED <<currentServerIndex, storeVars, codecVars, viewVars>>

\* the fetch() settles
FetchSettles ==
    /\ call.pc = "fetching"
    /\ \E resp \in Responses(call.fn) :
        call' =
             IF resp.kind = "reject"
             THEN IF resp.body = "fetch"
                  THEN AttemptThrows(call, resp,
                                     NetworkError(XRPL_SERVERS[call.server + 1]),
                                     currentServerIndex)
                  ELSE AttemptThrows(call, resp, Error("TypeError", "Load failed"),
                                     currentServerIndex)
             ELSE IF ~ResponseOk(resp)
             THEN [call EXCEPT !.pc = "errorText", !.response = resp]
             ELSE IF resp.body = "notJson"
             THEN AttemptThrows(call, resp, Error("SyntaxError", "Unexpected token"),
                                currentServerIndex)
             ELSE IF resp.body = "apiError"
             THEN AttemptThrows(call, resp, ApiError("actNotFound"),
                                currentServerIndex)
             ELSE IF resp.body = "noResult"
             THEN AttemptThrows(call, resp, NoResultError, currentServerIndex)
             ELSE AttemptReturns(call, resp, currentServerIndex)
    /\ UNCHANGED <<currentServerIndex, storeVars, codecVars, viewVars>>

\* response.text() of a non-success response resolves: the cursor moves on,
\* then the attempt throws
ReadErrorBody ==
    /\ call.pc = "errorText"
    /\ currentServerIndex' = NextServerIndex(currentServerIndex)
    /\ call' = AttemptThrows(call, call.response, ServerError(call.response.status),
                             NextServerIndex(currentServerIndex))
    /\ UNCHANGED <<storeVars, codecVars, viewVars>>

\* the backoff timer fires and the loop goes round
TimerFires ==
    /\ call.pc = "backoff"
    /\ call' = [call EXCEPT !.pc = "attempt", !.attempt = @ + 1]
    /\ UNCHANGED <<currentServerIndex, storeVars, codecVars, viewVars>>

RpcNext ==
    \/ StartCall
    \/ MakeRequest
    \/ FetchSettles
    \/ ReadErrorBody
    \/ TimerFires

\* The same steps for a caller that holds its fetch in a record of its own:
\* several of them can be in progress, one per caller.

\* makeXRPLRequest up to the fetch(), the cursor being at cursor
SendRequest(c, cursor) ==
    IF c.account # "" /\ ~validateXRPLAddress(c.account)
    THEN AttemptThrows([c EXCEPT !.server = cursor], NoResponse,
                       RequestAddressError, cursor)
    ELSE [c EXCEPT !.pc = "fetching", !.server = cursor,
                   !.sent = Append(@, cursor)]

\* fetchAccountLines(account) up to its first await
BeginFetch(account, cursor) ==
    LET c == FetchEntry("fetchAccountLines", account) IN
    IF c.pc = "attempt" THEN SendRequest(c, cursor) ELSE c

\* makeXRPLRequest after the fetch() settled with resp
Settled(c, resp, cursor) ==
    IF resp.kind = "reject"
    THEN IF resp.body = "fetch"
         THEN AttemptThrows(c, resp, NetworkError(XRPL_SERVERS[c.server + 1]),
                            cursor)
         ELSE AttemptThrows(c, resp, Error("TypeError", "Load failed"), cursor)
    ELSE IF ~ResponseOk(resp)
    THEN [c EXCEPT !.pc = "errorText", !.response = resp]
    ELSE IF resp.body = "notJson"
    THEN AttemptThrows(c, resp, Error("SyntaxError", "Unexpected token"), cursor)
    ELSE IF resp.body = "apiError"
    THEN AttemptThrows(c, resp, ApiError("actNotFound"), cursor)
    ELSE IF resp.body = "noResult"
    THEN AttemptThrows(c, resp, NoResultError, cursor)
    ELSE AttemptReturns(c, resp, cursor)

----------------------------------------------------------------------------
(* Currency codec *)

\* A JavaScript string is the tuple of its UTF-16 code units.

\* the code units trim and parseInt skip: WhiteSpace and LineTerminator
WhiteSpaceUnits ==
    {9, 10, 11, 12, 13, 32, 160, 5760, 8232, 8233, 8239, 8287, 12288, 65279}
        \cup (8192..8202)

\* faulty variant: only the end of the string is stripped
trimEndOnly(str) ==
    LET kept == {k \in 1..Len(str) : str[k] \notin WhiteSpaceUnits} IN
    IF kept = {} THEN <<>>
    ELSE SubSeq(str, 1, CHOOSE k \in kept : \A j \in kept : k >= j)

\* str.trim(): whitespace is stripped from both ends
trim(str) ==
    LET kept == {k \in 1..Len(str) : str[k] \notin WhiteSpaceUnits} IN
    IF kept = {} THEN <<>>
    ELSE SubSeq(str, CHOOSE k \in kept : \A j \in kept : k <= j,
                     CHOOSE k \in kept : \A j \in kept : k >= j)

\* the value of the digit a code unit writes (0-9, A-Z, a-z), -1 for no digit
DigitValue(unit) ==
    IF unit \in 48..57 THEN unit - 48
    ELSE IF unit \in 65..90 THEN unit - 55
    ELSE IF unit \in 97..122 THEN unit - 87
    ELSE -1

\* a JavaScript number that is NaN or an integer
NaN == [isNaN |-> TRUE, n |-> 0]
Number(n) == [isNaN |-> FALSE, n |-> n]

\* the digits of string from position k on, up to the first unit that is no
\* digit of the radix
RECURSIVE ParseDigits(_, _, _, _)
ParseDigits(string, radix, k, acc) ==
    IF k > Len(string) THEN acc
    ELSE LET d == DigitValue(string[k]) IN
         IF d < 0 \/ d >= radix THEN acc
         ELSE ParseDigits(string, radix, k + 1, radix * acc + d)

\* parseInt(string, radix): leading whitespace, a sign and (radix 16) a 0x
\* prefix are skipped, then the longest run of digits is read; NaN if none
parseInt(string, radix) ==
    LET rest == {k \in 1..Len(string) : string[k] \notin WhiteSpaceUnits}
        p == IF rest = {} THEN Len(string) + 1
             ELSE CHOOSE k \in rest : \A j \in rest : k <= j
        signed == p <= Len(string) /\ string[p] \in {43, 45}
        sign == IF signed /\ string[p] = 45 THEN -1 ELSE 1
        q == IF signed THEN p + 1 ELSE p
        prefixed == /\ radix = 16
                    /\ q + 1 <= Len(string)
                    /\ string[q] = 48
                    /\ string[q + 1] \in {88, 120}
        r == IF prefixed THEN q + 2 ELSE q
        noDigit == \/ r > Len(string)
                   \/ DigitValue(string[r]) < 0
                   \/ DigitValue(string[r]) >= radix
    IN  IF noDigit THEN NaN ELSE Number(sign * ParseDigits(string, radix, r, 0))

\* String.fromCharCode(num): the unit ToUint16(num), which is 0 for NaN
fromCharCode(num) ==
    IF num.isNaN THEN <<0>> ELSE <<num.n % 65536>>

\* the for loop of hexToString: i is the 1-based position of the pair read
RECURSIVE DecodeLoop(_, _, _)
DecodeLoop(hex, i, str) ==
    IF i > Len(hex) THEN str
    ELSE LET charCode == parseInt(SubSeq(hex, i, i + 1), 16) IN
         IF ~charCode.isNaN /\ charCode.n = 0
         THEN str
         ELSE DecodeLoop(hex, i + 2, str \o fromCharCode(charCode))

\* hexToString(hex); parseInt and fromCharCode never throw
hexToString(hex) ==
    IF Len(hex) # 40 THEN hex
    ELSE LET str == trim(DecodeLoop(hex, 1, <<>>)) IN
         IF str = <<>> THEN hex ELSE str

\* the unit of a digit as Number.prototype.toString writes it (lower case)
DigitUnit(d) == IF d < 10 THEN 48 + d ELSE 87 + d

\* n.toString(radix) for an integer n >= 0
RECURSIVE toString(_, _)
toString(n, radix) ==
    IF n < radix THEN <<DigitUnit(n)>>
    ELSE toString(n \div radix, radix) \o <<DigitUnit(n % radix)>>

\* faulty variant: nothing is put in front
padStartNothing(str, targetLength, unit) == str

\* str.padStart(targetLength, unit) and str.padEnd(targetLength, unit) with a
\* one-unit pad string
padStart(str, targetLength, unit) ==
    IF Len(str) >= targetLength THEN str
    ELSE [k \in 1..(targetLength - Len(str)) |-> unit] \o str

padEnd(str, targetLength, unit) ==
    IF Len(str) >= targetLength THEN str
    ELSE str \o [k \in 1..(targetLength - Len(str)) |-> unit]

\* str.toUpperCase() and str.toLowerCase() on Basic Latin and Latin-1 letters
\* that have a one-unit counterpart; every other unit is left as it is
toUpperCase(str) ==
    [k \in 1..Len(str) |->
        IF str[k] \in (97..122) \cup ((224..254) \ {247})
        THEN str[k] - 32 ELSE str[k]]

toLowerCase(str) ==
    [k \in 1..Len(str) |->
        IF str[k] \in (65..90) \cup ((192..222) \ {215})
        THEN str[k] + 32 ELSE str[k]]

\* the for loop of stringToHex
RECURSIVE EncodeLoop(_, _, _)
EncodeLoop(str, i, hex) ==
    IF i > Len(str) THEN hex
    ELSE EncodeLoop(str, i + 1, hex \o padStart(toString(str[i], 16), 2, 48))

\* stringToHex(str)
stringToHex(str) ==
    IF Len(str) = 3 THEN str
    ELSE toUpperCase(padEnd(EncodeLoop(str, 1, <<>>), 40, 48))

\* currency.length === 40 && /^[0-9A-F]{40}$/i.test(currency)
IsHexCurrency(currency) ==
    /\ Len(currency) = 40
    /\ \A k \in 1..Len(currency) :
          currency[k] \in (48..57) \cup (65..70) \cup (97..102)

----------------------------------------------------------------------------
(* Whitelist matcher *)

\* currencies and issuers as the ledger reports them on a trust line, and as a
\* whitelist entry holds them
Cur_ABC == "ABC"
Cur_abc == "abc"
Cur_HexABC == "4142430000000000000000000000000000000000"
Cur_GreedyJEW == "GreedyJEW"
Cur_greedyjew == "greedyjew"
Cur_HexGreedyJEW == "4772656564794A45570000000000000000000000"
Cur_HexGreedyJEWLower == "4772656564794a45570000000000000000000000"
Cur_USD == "USD"
Addr_GreedyIssuerLowerPadded == " rdrvw4pkmetsnz3cjxbl6hljjmejtkoq4 "

\* the characters of each of these strings and of the default currencies
MatcherChars ==
    "ABC" :>
         <<"A","B","C">>
    @@ "4142430000000000000000000000000000000000" :>
         <<"4","1","4","2","4","3","0","0","0","0","0","0","0","0","0","0","0","0","0","0","0","0","0","0","0","0","0","0","0","0","0","0","0","0","0","0","0","0","0","0">>
    @@ "GreedyJEW" :>
         <<"G","r","e","e","d","y","J","E","W">>
    @@ "4772656564794A45570000000000000000000000" :>
         <<"4","7","7","2","6","5","6","5","6","4","7","9","4","A","4","5","5","7","0","0","0","0","0","0","0","0","0","0","0","0","0","0","0","0","0","0","0","0","0","0">>
    @@ "4772656564794a45570000000000000000000000" :>
         <<"4","7","7","2","6","5","6","5","6","4","7","9","4","a","4","5","5","7","0","0","0","0","0","0","0","0","0","0","0","0","0","0","0","0","0","0","0","0","0","0">>
    @@ "greedyjew" :>
         <<"g","r","e","e","d","y","j","e","w">>
    @@ "USD" :>
         <<"U","S","D">>
    @@ "JewNomicaN" :>
         <<"J","e","w","N","o","m","i","c","a","N">>
    @@ "HEBROID" :>
         <<"H","E","B","R","O","I","D">>
    @@ "ASC" :>
         <<"A","S","C">>
    @@ " rdrvw4pkmetsnz3cjxbl6hljjmejtkoq4 " :>
         <<" ","r","d","r","v","w","4","p","k","m","e","t","s","n","z","3","c","j","x","b","l","6","h","l","j","j","m","e","j","t","k","o","q","4"," ">>

StringChars == AddressChars @@ MatcherChars

\* the code unit of a character: space, digit, upper-case or lower-case letter
DigitChars == <<"0","1","2","3","4","5","6","7","8","9">>
UpperChars == <<"A","B","C","D","E","F","G","H","I","J","K","L","M",
                "N","O","P","Q","R","S","T","U","V","W","X","Y","Z">>
LowerChars == <<"a","b","c","d","e","f","g","h","i","j","k","l","m",
                "n","o","p","q","r","s","t","u","v","w","x","y","z">>

CharCode(c) ==
    IF c = " " THEN 32
    ELSE IF \E k \in 1..10 : DigitChars[k] = c
    THEN 47 + (CHOOSE k \in 1..10 : DigitChars[k] = c)
    ELSE IF \E k \in 1..26 : UpperChars[k] = c
    THEN 64 + (CHOOSE k \in 1..26 : UpperChars[k] = c)
    ELSE 96 + (CHOOSE k \in 1..26 : LowerChars[k] = c)

\* the code units of a tuple of characters, from position k on
RECURSIVE UnitsFrom(_, _)
UnitsFrom(chars, k) ==
    IF k > Len(chars) THEN <<>>
    ELSE <<CharCode(chars[k])>> \o UnitsFrom(chars, k + 1)

\* the table of the code units of the strings in strs
RECURSIVE UnitsTable(_)
UnitsTable(strs) ==
    LET str == CHOOSE x \in strs : TRUE IN
    IF strs = {str}
    THEN str :> UnitsFrom(StringChars[str], 1)
    ELSE (str :> UnitsFrom(StringChars[str], 1)) @@ UnitsTable(strs \ {str})

\* the code units of each string
StringUnits == UnitsTable(DOMAIN StringChars)

UnitsOf(str) == StringUnits[str]

\* faulty variant: the issuers are compared as they are written
EntryMatchesIssuerAsWritten(t, currency, issuer) ==
    LET isHexCurrency == IsHexCurrency(UnitsOf(currency)) IN
    IF UnitsOf(t.issuer) # UnitsOf(issuer) THEN FALSE
    ELSE IF isHexCurrency
    THEN LET decodedCurrency == hexToString(UnitsOf(currency)) IN
         \/ toLowerCase(decodedCurrency) = toLowerCase(UnitsOf(t.currency))
         \/ toLowerCase(UnitsOf(currency))
                = toLowerCase(stringToHex(UnitsOf(t.currency)))
    ELSE toLowerCase(UnitsOf(currency)) = toLowerCase(UnitsOf(t.currency))

\* the callback of tokens.some in isTokenWhitelisted, for the entry t
EntryMatches(t, currency, issuer) ==
    LET normalizedIssuer == trim(toLowerCase(UnitsOf(issuer)))
        normalizedWhitelistIssuer == trim(toLowerCase(UnitsOf(t.issuer)))
        isHexCurrency == IsHexCurrency(UnitsOf(currency))
    IN
    IF normalizedWhitelistIssuer # normalizedIssuer THEN FALSE
    ELSE IF isHexCurrency
    THEN LET decodedCurrency == hexToString(UnitsOf(currency)) IN
         \/ toLowerCase(decodedCurrency) = toLowerCase(UnitsOf(t.currency))
         \/ toLowerCase(UnitsOf(currency))
                = toLowerCase(stringToHex(UnitsOf(t.currency)))
    ELSE toLowerCase(UnitsOf(currency)) = toLowerCase(UnitsOf(t.currency))

\* isTokenWhitelisted(currency, issuer), tokens being the list its
\* loadTokenConfig returned
isTokenWhitelisted(tokens, currency, issuer) ==
    \E k \in 1..Len(tokens) : EntryMatches(tokens[k], currency, issuer)

----------------------------------------------------------------------------
(* Codec and matcher calls *)

\* the codec before any call
IdleCodec == [fn |-> "none", arg |-> <<>>, result |-> <<>>]

\* the bytes the codec's inputs are made of: the zero byte, a control
\* character below 16, a space, an upper-case letter (A) and a lower-case
\* letter (b)
CodecBytes == {0, 7, 32, 65, 98}

MaxPayloadLen == 3

Payloads == UNION {[1..n -> CodecBytes] : n \in 0..MaxPayloadLen}

Repeat(unit, n) == [k \in 1..n |-> unit]

\* the text the ledger writes for a byte string: two upper-case hexadecimal
\* digits per byte
HexDigitUnits == <<48, 49, 50, 51, 52, 53, 54, 55, 56, 57, 65, 66, 67, 68, 69, 70>>

HexText(bytes) ==
    [k \in 1..(2 * Len(bytes)) |->
        IF k % 2 = 1
        THEN HexDigitUnits[(bytes[(k + 1) \div 2] \div 16) + 1]
        ELSE HexDigitUnits[(bytes[k \div 2] % 16) + 1]]

\* the strings the codec is called with, for one payload p: p as a plain code;
\* its 160-bit currency code, zero padded, in either case; a code without any
\* zero byte after p; 40 units of which one is no hexadecimal digit; hex text
\* of 39 and of 42 digits; plain strings of 20 and of 21 units; a plain string
\* with a unit above 127 and one with a unit above 255
CodecInputsOf(p) ==
    LET padded == HexText(p \o Repeat(0, 20 - Len(p)))
    IN  { p,
          padded,
          toLowerCase(padded),
          HexText(p \o Repeat(88, 20 - Len(p))),
          [padded EXCEPT ![40] = 71],
          [padded EXCEPT ![1] = 90],
          SubSeq(padded, 1, 39),
          padded \o <<48, 48>>,
          p \o Repeat(65, 20 - Len(p)),
          p \o Repeat(65, 21 - Len(p)),
          p \o <<233>>,
          p \o <<8364>> }

CodecInputs == UNION {CodecInputsOf(p) : p \in Payloads}

\* the matcher before any call
IdleMatch ==
    [called |-> FALSE, tokens |-> <<>>, currency |-> "", issuer |-> "",
     result |-> FALSE]

CodecInit ==
    /\ codec \in {[IdleCodec EXCEPT !.arg = a] : a \in CodecInputs}
    /\ match = IdleMatch

\* hexToString(codec.arg) is called
HexToString ==
    /\ codec.fn = "none"
    /\ codec' = [codec EXCEPT !.fn = "hexToString",
                              !.result = hexToString(codec.arg)]
    /\ UNCHANGED <<rpcVars, storeVars, match, viewVars>>

\* stringToHex(codec.arg) is called
StringToHex ==
    /\ codec.fn = "none"
    /\ codec' = [codec EXCEPT !.fn = "stringToHex",
                              !.result = stringToHex(codec.arg)]
    /\ UNCHANGED <<rpcVars, storeVars, match, viewVars>>

\* hexToString is called on what stringToHex(codec.arg) returned
DecodeEncoded ==
    /\ codec.fn = "stringToHex"
    /\ codec' = [codec EXCEPT !.fn = "hexToString(stringToHex)",
                              !.result = hexToString(codec.result)]
    /\ UNCHANGED <<rpcVars, storeVars, match, viewVars>>

CodecNext ==
    \/ HexToString
    \/ StringToHex
    \/ DecodeEncoded

\* the entries a user keeps in the whitelist besides the defaults: a standard
\* code, the same code in its 160-bit form, and the 160-bit form of a default
\* entry's code
MatcherEntries ==
    {Token(Cur_ABC, Addr_GreedyIssuer, "ABC"),
     Token(Cur_HexABC, Addr_DevWallet, "ABC (hex)"),
     Token(Cur_HexGreedyJEW, Addr_DevWallet, "GreedyJEW (hex)")}

MaxWhitelistLen == 2

\* the stored whitelists: no two entries alike, at most MaxWhitelistLen entries
MatcherWhitelists ==
    {l \in UNION {[1..n -> MatcherEntries] : n \in 0..MaxWhitelistLen} :
        \A j, k \in 1..Len(l) : l[j] = l[k] => j = k}

\* what a trust line reports
ObservedCurrencies ==
    {Cur_ABC, Cur_abc, Cur_HexABC, Cur_GreedyJEW, Cur_greedyjew,
     Cur_HexGreedyJEW, Cur_HexGreedyJEWLower, Cur_USD}

ObservedIssuers ==
    {Addr_GreedyIssuer, Addr_GreedyIssuerLowerPadded, Addr_DevWallet}

MatcherInit ==
    /\ storage \in {NoItem} \cup {JSONstringify(l) : l \in MatcherWhitelists}
    /\ DEFAULT_TOKENS = CanonicalDefaults
    /\ storeOp = Op("none", "", "", "ok")
    /\ codec = IdleCodec
    /\ match = IdleMatch

\* isTokenWhitelisted(currency, issuer): the whitelist is loaded, then
\* searched; one trust line is classified on each stored whitelist
IsTokenWhitelisted ==
    \E currency \in ObservedCurrencies, issuer \in ObservedIssuers,
       canWrite \in BOOLEAN :
        LET l == loadTokenConfig(storage, DEFAULT_TOKENS, canWrite) IN
        /\ ~match.called
        /\ storage' = l.storage
        /\ match' = [called |-> TRUE, tokens |-> l.tokens,
                     currency |-> currency, issuer |-> issuer,
                     result |-> isTokenWhitelisted(l.tokens, currency, issuer)]
        /\ UNCHANGED <<DEFAULT_TOKENS, storeOp, rpcVars, codec, viewVars>>

MatcherNext == IsTokenWhitelisted

----------------------------------------------------------------------------
(* Token list view *)

\* the wallets TokenList monitors
WALLETS ==
    <<[address |-> Addr_GreedyIssuer, name |-> "GreedyJEW Issuer"],
      [address |-> Addr_DevWallet, name |-> "Project Dev Wallet"]>>

WalletError(wallet, error) ==
    [wallet |-> wallet.name, address |-> wallet.address, error |-> error]

\* the message of the entry pushed for a wallet whose address is malformed
InvalidFormatMessage == Error("InvalidAddress", "Invalid XRPL address format.")

\* the first loop of loadTokens: an entry for every malformed address
InvalidWalletErrors(wallets) ==
    LET bad == SelectSeq(wallets, LAMBDA w : ~validateXRPLAddress(w.address))
    IN  [n \in 1..Len(bad) |-> WalletError(bad[n], InvalidFormatMessage)]

\* the second loop skips malformed addresses: the first wallet from k on that
\* is fetched, Len(wallets) + 1 when there is none
RECURSIVE NextWallet(_, _)
NextWallet(wallets, k) ==
    IF k > Len(wallets) THEN k
    ELSE IF validateXRPLAddress(wallets[k].address) THEN k
    ELSE NextWallet(wallets, k + 1)

\* the filter callback on every line in turn: each isTokenWhitelisted call
\* loads the whitelist anew; the verdicts, and the stored item after the last
RECURSIVE FilterVerdicts(_, _, _, _, _)
FilterVerdicts(lines, k, stored, defaults, canWrite) ==
    IF k > Len(lines) THEN [verdicts |-> <<>>, storage |-> stored]
    ELSE LET l == loadTokenConfig(stored, defaults, canWrite)
             rest == FilterVerdicts(lines, k + 1, l.storage, defaults, canWrite)
         IN  [verdicts |->
                  <<isTokenWhitelisted(l.tokens, lines[k].currency,
                                       lines[k].account)>> \o rest.verdicts,
              storage |-> rest.storage]

\* faulty variant: the filter lets every line through
filteredLinesKeepsAll(lines, verdicts) == lines

\* lines.filter(...): the lines whose verdict is true, in their order
filteredLines(lines, verdicts) ==
    LET kept == SelectSeq([k \in 1..Len(lines) |-> k], LAMBDA k : verdicts[k])
    IN  [n \in 1..Len(kept) |-> lines[kept[n]]]

\* a 160-bit code is decoded for display, any other code is shown as it is
displayCurrency(line) ==
    IF IsHexCurrency(UnitsOf(line.currency))
    THEN hexToString(UnitsOf(line.currency))
    ELSE UnitsOf(line.currency)

\* filteredLines.map(...): the tokens built from the lines kept
tokensWithAccount(lines, walletName) ==
    [n \in 1..Len(lines) |->
        [currency |-> displayCurrency(lines[n]),
         issuer |-> lines[n].account,
         balance |-> lines[n].balance,
         limit |-> lines[n].limit,
         account |-> walletName]]

\* one fetch of loadTokens as its console log shows it: the wallet, whether
\* the fetch returned, the lines it returned and the verdict on each
Fetched(walletName, returned, lines, verdicts) ==
    [wallet |-> walletName, returned |-> returned, lines |-> lines,
     verdicts |-> verdicts]

\* TokenList as it is mounted: useState's initial values, no run yet
MountedTokenList ==
    [pc |-> "mounted", wallet |-> 0, call |-> IdleCall,
     allTokens |-> <<>>, errors |-> <<>>, fetches |-> <<>>,
     tokens |-> <<>>, loading |-> TRUE, walletErrors |-> <<>>]

\* another view is on screen
UnmountedTokenList ==
    [MountedTokenList EXCEPT !.pc = "unmounted", !.loading = FALSE]

\* what the transport answers to the requests of the token list: the request
\* fails in the network, the server is unavailable, or it returns trust lines
ListResponses ==
    {resp \in Responses("fetchAccountLines") :
        \/ resp.kind = "reject" /\ resp.body = "fetch"
        \/ resp.kind = "http" /\ resp.status = 503
        \/ resp.present}

\* faulty variant: the run ends without a finally block
FinishLoadTokensStillLoading(tl) ==
    [tl EXCEPT !.pc = "done", !.call = IdleCall, !.tokens = tl.allTokens,
               !.walletErrors = tl.errors]

\* the try block's tail and the finally: both states are set, loading ends
FinishLoadTokens(tl) ==
    [tl EXCEPT !.pc = "done", !.call = IdleCall, !.tokens = tl.allTokens,
               !.walletErrors = tl.errors, !.loading = FALSE]

\* faulty variant: the first failed fetch ends the loop
ContinueLoadTokensUntilError(tl, k, cursor) ==
    LET j == NextWallet(WALLETS, k) IN
    IF j <= Len(WALLETS) /\ tl.errors = <<>>
    THEN [tl EXCEPT !.pc = "awaiting", !.wallet = j,
                    !.call = BeginFetch(WALLETS[j].address, cursor)]
    ELSE FinishLoadTokens(tl)

\* the second loop of loadTokens from wallet k on, up to its next await or
\* to the end of the run
ContinueLoadTokens(tl, k, cursor) ==
    LET j == NextWallet(WALLETS, k) IN
    IF j <= Len(WALLETS)
    THEN [tl EXCEPT !.pc = "awaiting", !.wallet = j,
                    !.call = BeginFetch(WALLETS[j].address, cursor)]
    ELSE FinishLoadTokens(tl)

\* loadTokens up to its first await: the states are reset, the whitelist is
\* loaded, malformed addresses are reported, the first fetch is sent
BeginLoadTokens ==
    \E canWrite \in BOOLEAN :
        /\ storage' = loadTokenConfig(storage, DEFAULT_TOKENS, canWrite).storage
        /\ tokenList' = ContinueLoadTokens(
               [tokenList EXCEPT !.loading = TRUE, !.walletErrors = <<>>,
                                 !.allTokens = <<>>, !.fetches = <<>>,
                                 !.errors = InvalidWalletErrors(WALLETS)],
               1, currentServerIndex)
        /\ UNCHANGED <<rpcVars, DEFAULT_TOKENS, storeOp, codecVars,
                       tokenMetrics>>

\* the effect of mounting TokenList runs loadTokens
TokenListEffect ==
    /\ tokenList.pc = "mounted"
    /\ BeginLoadTokens

\* Retry is clicked, or the whitelist dialog reports a change, after the run
\* before has ended: loadTokens runs again
ReloadTokens ==
    /\ tokenList.pc = "done"
    /\ BeginLoadTokens

\* the awaited fetchAccountLines settled as c and loadTokens resumes: the
\* lines are filtered and turned into tokens, or the error is recorded; then
\* the loop goes on to the next wallet
ResumeLoadTokens(c, cursor, canWrite) ==
    LET wallet == WALLETS[tokenList.wallet]
        lines == c.result
        f == FilterVerdicts(lines, 1, storage, DEFAULT_TOKENS, canWrite)
    IN
    IF c.returned
    THEN /\ storage' = f.storage
         /\ tokenList' = ContinueLoadTokens(
                [tokenList EXCEPT
                    !.allTokens = @ \o tokensWithAccount(
                                          filteredLines(lines, f.verdicts),
                                          wallet.name),
                    !.fetches = Append(@, Fetched(wallet.name, TRUE,
                                                  lines, f.verdicts))],
                tokenList.wallet + 1, cursor)
    ELSE /\ UNCHANGED storage
         /\ tokenList' = ContinueLoadTokens(
                [tokenList EXCEPT
                    !.errors = Append(@, WalletError(wallet, c.error)),
                    !.fetches = Append(@, Fetched(wallet.name, FALSE,
                                                  <<>>, <<>>))],
                tokenList.wallet + 1, cursor)

\* the fetch of loadTokens has moved on to c: the run stays suspended while
\* the fetch is in progress and resumes when it has returned or raised
ListStep(c, cursor, canWrite) ==
    IF c.pc \in {"returned", "raised"}
    THEN ResumeLoadTokens(c, cursor, canWrite)
    ELSE /\ tokenList' = [tokenList EXCEPT !.call = c]
         /\ UNCHANGED storage

\* the fetch() of loadTokens settles
ListFetchSettles ==
    \E resp \in ListResponses, canWrite \in BOOLEAN :
        /\ tokenList.call.pc = "fetching"
        /\ ListStep(Settled(tokenList.call, resp, currentServerIndex),
                    currentServerIndex, canWrite)
        /\ UNCHANGED <<rpcVars, DEFAULT_TOKENS, storeOp, codecVars,
                       tokenMetrics>>

\* response.text() of a non-success response to loadTokens resolves: the
\* cursor moves on, then the attempt throws
ListReadErrorBody ==
    LET c == tokenList.call
        moved == NextServerIndex(currentServerIndex)
    IN
    /\ c.pc = "errorText"
    /\ currentServerIndex' = moved
    /\ ListStep(AttemptThrows(c, c.response, ServerError(c.response.status),
                              moved),
                moved, TRUE)
    /\ UNCHANGED <<call, DEFAULT_TOKENS, storeOp, codecVars, tokenMetrics>>

\* the backoff timer of loadTokens fires: the next attempt is sent
ListTimerFires ==
    LET c == tokenList.call IN
    /\ c.pc = "backoff"
    /\ ListStep(SendRequest([c EXCEPT !.pc = "attempt", !.attempt = @ + 1],
                            currentServerIndex),
                currentServerIndex, TRUE)
    /\ UNCHANGED <<rpcVars, DEFAULT_TOKENS, storeOp, codecVars, tokenMetrics>>

\* a token of the list is clicked: the detail view replaces the list
SelectToken ==
    /\ tokenList.pc = "done"
    /\ ~tokenList.loading
    /\ tokenList.tokens # <<>>
    /\ tokenList' = UnmountedTokenList
    /\ UNCHANGED <<rpcVars, storeVars, codecVars, tokenMetrics>>

\* with the token list gone, the view on screen calls a fetch function; the
\* detail view and the wallet view fetch for the monitored wallets only
OtherViewCalls ==
    /\ tokenList.pc = "unmounted"
    /\ StartCall
    /\ call'.account \in {WALLETS[k].address : k \in 1..Len(WALLETS)}

TokenListNext ==
    \/ TokenListEffect
    \/ ReloadTokens
    \/ ListFetchSettles
    \/ ListReadErrorBody
    \/ ListTimerFires
    \/ SelectToken
    \/ OtherViewCalls
    \/ MakeRequest
    \/ FetchSettles
    \/ ReadErrorBody
    \/ TimerFires

----------------------------------------------------------------------------
(* Token detail view *)

\* the wallets TokenMetrics monitors
MONITORED_WALLETS ==
    <<[address |-> Addr_GreedyIssuer, name |-> "GreedyJEW Issuer"],
      [address |-> Addr_DevWallet, name |-> "Project Dev Wallet"]>>

\* the two async functions the effect of TokenMetrics starts
Runs == {"loadHoldings", "loadTrustLines"}

\* parseFloat on the balances of the sample lines
parseFloat(balance) ==
    CASE balance = "0" -> 0
      [] balance = "5" -> 5
      [] balance = "1000" -> 1000

\* the token's currency is compared with the line's as the ledger reports it
isWalletRelevantForToken(trustLines, tokenCurrency, tokenIssuer) ==
    \E k \in 1..Len(trustLines) :
        /\ UnitsOf(trustLines[k].currency) = tokenCurrency
        /\ trustLines[k].account = tokenIssuer
        /\ parseFloat(trustLines[k].balance) # 0

\* lines.find(...) of loadHoldings and the push that follows it: the holding
\* of the first line whose currency and issuer are the token's, if any
HoldingOf(wallet, lines, token) ==
    LET hits == SelectSeq(lines,
                    LAMBDA line : /\ UnitsOf(line.currency) = token.currency
                                  /\ line.account = token.issuer)
    IN  IF hits = <<>> THEN <<>>
        ELSE <<[address |-> wallet.address, name |-> wallet.name,
                balance |-> hits[1].balance]>>

\* the push of loadTrustLines: the wallet with all its lines, if relevant
TrustLinesOf(wallet, lines, token) ==
    IF isWalletRelevantForToken(lines, token.currency, token.issuer)
    THEN <<[address |-> wallet.address, name |-> wallet.name,
            trustLines |-> lines]>>
    ELSE <<>>

\* a run of loadHoldings or loadTrustLines: the wallet it is at, the fetch it
\* awaits, what it has collected, and its fetches as its console log shows them
IdleRun ==
    [pc |-> "idle", wallet |-> 0, call |-> IdleCall,
     found |-> <<>>, errors |-> <<>>, fetches |-> <<>>]

NoSelection == [currency |-> <<>>, issuer |-> "", balance |-> "",
                limit |-> "", account |-> ""]

\* TokenMetrics as it is mounted on a token: useState's initial values
MountedTokenMetrics(token) ==
    [pc |-> "mounted", token |-> token, runs |-> [r \in Runs |-> IdleRun],
     holdings |-> <<>>, loading |-> TRUE, walletErrors |-> <<>>,
     walletTrustLines |-> <<>>, trustLinesLoading |-> FALSE,
     trustLinesErrors |-> <<>>]

\* another view is on screen
UnmountedTokenMetrics ==
    [MountedTokenMetrics(NoSelection) EXCEPT !.pc = "unmounted",
                                             !.loading = FALSE]

\* the try block's tail and the finally of the run: its states are set
FinishRun(tm, r, run) ==
    LET done == [run EXCEPT !.pc = "done", !.call = IdleCall] IN
    IF r = "loadHoldings"
    THEN [tm EXCEPT !.runs[r] = done, !.holdings = run.found,
                    !.walletErrors = run.errors, !.loading = FALSE]
    ELSE [tm EXCEPT !.runs[r] = done, !.walletTrustLines = run.found,
                    !.trustLinesErrors = run.errors,
                    !.trustLinesLoading = FALSE]

\* the loop of the run from wallet k on, up to its next await or to the end
\* of the run: a malformed address is reported and skipped, a fetch is sent
\* to the server under the cursor
RECURSIVE ContinueRun(_, _, _, _, _)
ContinueRun(tm, r, run, k, cursor) ==
    IF k > Len(MONITORED_WALLETS) THEN FinishRun(tm, r, run)
    ELSE IF ~validateXRPLAddress(MONITORED_WALLETS[k].address)
    THEN ContinueRun(tm, r,
                     [run EXCEPT !.errors =
                         Append(@, WalletError(MONITORED_WALLETS[k],
                                               InvalidFormatMessage))],
                     k + 1, cursor)
    ELSE [tm EXCEPT !.runs[r] =
             [run EXCEPT !.pc = "awaiting", !.wallet = k,
                         !.call = BeginFetch(MONITORED_WALLETS[k].address,
                                             cursor)]]

\* the awaited fetch of the run settled as c: what the run collects from it,
\* then the loop goes on
ResumeRun(tm, r, c, cursor) ==
    LET run == tm.runs[r]
        wallet == MONITORED_WALLETS[run.wallet]
        found == IF r = "loadHoldings"
                 THEN HoldingOf(wallet, c.result, tm.token)
                 ELSE TrustLinesOf(wallet, c.result, tm.token)
        resumed ==
            IF c.returned
            THEN [run EXCEPT !.found = @ \o found,
                             !.fetches = Append(@, Fetched(wallet.name, TRUE,
                                                           c.result, <<>>))]
            ELSE [run EXCEPT !.errors = Append(@, WalletError(wallet, c.error)),
                             !.fetches = Append(@, Fetched(wallet.name, FALSE,
                                                           <<>>, <<>>))]
    IN  ContinueRun(tm, r, resumed, run.wallet + 1, cursor)

\* the fetch of run r has moved on to c: the run stays suspended while the
\* fetch is in progress and resumes when it has returned or raised
RunStep(tm, r, c, cursor) ==
    IF c.pc \in {"returned", "raised"}
    THEN ResumeRun(tm, r, c, cursor)
    ELSE [tm EXCEPT !.runs[r].call = c]

\* what the transport answers to the requests of the detail view: the server
\* is unavailable, or it returns trust lines
MetricsResponses ==
    {resp \in Responses("fetchAccountLines") :
        \/ resp.kind = "http" /\ resp.status = 503
        \/ resp.present /\ resp.value # <<>>}

\* the tokens the list view can pass to the detail view: those it builds from
\* the sample lines a whitelist lets through
SelectableTokens ==
    {tokensWithAccount(<<SampleLinesHex[1]>>, WALLETS[1].name)[1],
     tokensWithAccount(SampleLinesStandard, WALLETS[2].name)[1]}

MetricsInit ==
    /\ currentServerIndex = 0
    /\ call = IdleCall
    /\ tokenList = UnmountedTokenList
    /\ tokenMetrics \in {MountedTokenMetrics(t) : t \in SelectableTokens}

\* the effect of mounting TokenMetrics calls loadHoldings() and then
\* loadTrustLines(): each runs up to its first await, so both fetches are
\* sent before either settles
TokenMetricsEffect ==
    /\ tokenMetrics.pc = "mounted"
    /\ LET shown == [tokenMetrics EXCEPT !.pc = "shown", !.loading = TRUE,
                                         !.walletErrors = <<>>]
           first == ContinueRun(shown, "loadHoldings", IdleRun, 1,
                                currentServerIndex)
           second == ContinueRun([first EXCEPT !.trustLinesLoading = TRUE,
                                               !.trustLinesErrors = <<>>],
                                 "loadTrustLines", IdleRun, 1,
                                 currentServerIndex)
       IN  tokenMetrics' = second
    /\ UNCHANGED <<rpcVars, storeVars, codecVars, tokenList>>

\* the fetch() of one of the runs settles
RunFetchSettles ==
    \E r \in Runs, resp \in MetricsResponses :
        /\ tokenMetrics.runs[r].call.pc = "fetching"
        /\ tokenMetrics' = RunStep(tokenMetrics, r,
                                   Settled(tokenMetrics.runs[r].call, resp,
                                           currentServerIndex),
                                   currentServerIndex)
        /\ UNCHANGED <<rpcVars, storeVars, codecVars, tokenList>>

\* response.text() of a non-success response to one of the runs resolves: the
\* cursor moves on from where it is now, then the attempt throws
RunReadErrorBody ==
    \E r \in Runs :
        LET c == tokenMetrics.runs[r].call
            moved == NextServerIndex(currentServerIndex)
        IN
        /\ c.pc = "errorText"
        /\ currentServerIndex' = moved
        /\ tokenMetrics' = RunStep(tokenMetrics, r,
                                   AttemptThrows(c, c.response,
                                                 ServerError(c.response.status),
                                                 moved),
                                   moved)
        /\ UNCHANGED <<call, storeVars, codecVars, tokenList>>

\* the backoff timer of one of the runs fires: the next attempt is sent to
\* the server under the cursor
RunTimerFires ==
    \E r \in Runs :
        LET c == tokenMetrics.runs[r].call IN
        /\ c.pc = "backoff"
        /\ tokenMetrics' = RunStep(tokenMetrics, r,
                                   SendRequest([c EXCEPT !.pc = "attempt",
                                                         !.attempt = @ + 1],
                                               currentServerIndex),
                                   currentServerIndex)
        /\ UNCHANGED <<rpcVars, storeVars, codecVars, tokenList>>

MetricsNext ==
    \/ TokenMetricsEffect
    \/ RunFetchSettles
    \/ RunReadErrorBody
    \/ RunTimerFires

----------------------------------------------------------------------------
(* Specifications *)

\* neither the token list nor the token detail view is on screen
NoView ==
    /\ tokenList = UnmountedTokenList
    /\ tokenMetrics = UnmountedTokenMetrics

\* the ledger client alone, the whitelist store untouched
RpcSpecInit ==
    /\ RpcInit
    /\ storage = NoItem
    /\ DEFAULT_TOKENS = CanonicalDefaults
    /\ storeOp = Op("none", "", "", "ok")
    /\ codec = IdleCodec
    /\ match = IdleMatch
    /\ NoView

RpcSpec == RpcSpecInit /\ [][RpcNext]_vars

\* the whitelist store alone, no fetch in progress
StoreSpecInit ==
    /\ RpcInit
    /\ StoreInit
    /\ codec = IdleCodec
    /\ match = IdleMatch
    /\ NoView

StoreSpec == StoreSpecInit /\ [][StoreNext]_vars

\* the codec alone: one call on one input
CodecSpecInit ==
    /\ RpcInit
    /\ storage = NoItem
    /\ DEFAULT_TOKENS = CanonicalDefaults
    /\ storeOp = Op("none", "", "", "ok")
    /\ CodecInit
    /\ NoView

CodecSpec == CodecSpecInit /\ [][CodecNext]_vars

\* the matcher alone, on a stored whitelist
MatcherSpecInit == RpcInit /\ MatcherInit /\ NoView

MatcherSpec == MatcherSpecInit /\ [][MatcherNext]_vars

\* the whitelists the token list opens on: nothing stored yet, or the defaults
\* and an entry of the user's
TokenListWhitelists ==
    {NoItem,
     JSONstringify(Append(CanonicalDefaults,
                          Token(Cur_ABC, Addr_GreedyIssuer, "ABC")))}

\* the application as it starts: the token list is mounted, and the ledger
\* client serves its run, then the calls of the other views
TokenListSpecInit ==
    /\ RpcInit
    /\ storage \in TokenListWhitelists
    /\ DEFAULT_TOKENS = CanonicalDefaults
    /\ storeOp = Op("none", "", "", "ok")
    /\ codec = IdleCodec
    /\ match = IdleMatch
    /\ tokenList = MountedTokenList
    /\ tokenMetrics = UnmountedTokenMetrics

TokenListSpec == TokenListSpecInit /\ [][TokenListNext]_vars

\* the application as it starts on a whitelist that needs no merge, every
\* network attempt being answered or failing in the end, every timer firing
\* and every effect running
TokenListFairSpecInit ==
    /\ RpcInit
    /\ storage = JSONstringify(Append(CanonicalDefaults,
                                      Token(Cur_ABC, Addr_GreedyIssuer, "ABC")))
    /\ DEFAULT_TOKENS = CanonicalDefaults
    /\ storeOp = Op("none", "", "", "ok")
    /\ codec = IdleCodec
    /\ match = IdleMatch
    /\ tokenList = MountedTokenList
    /\ tokenMetrics = UnmountedTokenMetrics

TokenListFairSpec ==
    /\ TokenListFairSpecInit
    /\ [][TokenListNext]_vars
    /\ WF_vars(TokenListEffect)
    /\ WF_vars(ListFetchSettles)
    /\ WF_vars(ListReadErrorBody)
    /\ WF_vars(ListTimerFires)
    /\ WF_vars(MakeRequest)
    /\ WF_vars(FetchSettles)
    /\ WF_vars(ReadErrorBody)
    /\ WF_vars(TimerFires)

\* the token detail view as it is mounted on a token of the list
MetricsSpecInit ==
    /\ MetricsInit
    /\ storage = NoItem
    /\ DEFAULT_TOKENS = CanonicalDefaults
    /\ storeOp = Op("none", "", "", "ok")
    /\ codec = IdleCodec
    /\ match = IdleMatch

MetricsSpec == MetricsSpecInit /\ [][MetricsNext]_vars

----------------------------------------------------------------------------
(* Claims about the whitelist store, checked under StoreSpec *)

NoDuplicateKeys(tokens) ==
    \A j, k \in 1..Len(tokens) :
        (tokens[j].currency = tokens[k].currency /\ tokens[j].issuer = tokens[k].issuer)
            => j = k

\* C1: once removeToken(c, i) has completed, the list the next loadTokenConfig
\* returns holds no entry whose currency is c and whose issuer is i
C1_RemovedKeyAbsentFromNextLoad ==
    (storeOp.op = "remove" /\ storeOp.outcome = "ok") =>
        \A canWrite \in BOOLEAN :
            ~SomeSameKey(loadTokenConfig(storage, DEFAULT_TOKENS, canWrite).tokens,
                         storeOp.currency, storeOp.issuer)

\* C2: the persisted collection, and every list loadTokenConfig returns, hold no
\* two entries with the same (currency, issuer) pair
C2_NoDuplicateKeys ==
    /\ storage.kind = "json" => NoDuplicateKeys(JSONparse(storage))
    /\ \A canWrite \in BOOLEAN :
          NoDuplicateKeys(loadTokenConfig(storage, DEFAULT_TOKENS, canWrite).tokens)

\* an addToken was refused as a duplicate while the store holds the defaults
\* and an entry of the user's
C2_Witness ==
    /\ storeOp.op = "add" /\ storeOp.outcome = "DuplicateToken"
    /\ storage.kind = "json"
    /\ Len(JSONparse(storage)) > NumDefaults

\* C11: on empty storage loadTokenConfig returns exactly the canonical default
\* list and leaves that list persisted (the write being accepted); a second
\* loadTokenConfig right after returns an equal list and writes nothing
C11_EmptyStorageSeedsCanonicalDefaults ==
    storage.kind = "absent" =>
        LET first == loadTokenConfig(storage, DEFAULT_TOKENS, TRUE) IN
        /\ first.tokens = CanonicalDefaults
        /\ first.storage = JSONstringify(CanonicalDefaults)
        /\ \A canWrite \in BOOLEAN :
              LET second == loadTokenConfig(first.storage, DEFAULT_TOKENS, canWrite)
              IN  /\ second.tokens = first.tokens
                  /\ ~second.wrote
                  /\ second.storage = first.storage

\* the canonical default entries whose exact key no entry of tokens has, in
\* default order
MissingCanonicalDefaults(tokens) ==
    SelectSeq(CanonicalDefaults,
              LAMBDA d : \A k \in 1..Len(tokens) :
                            ~(tokens[k].currency = d.currency
                              /\ tokens[k].issuer = d.issuer))

\* C12: on storage holding fewer entries than the canonical default list,
\* loadTokenConfig returns the stored entries, unchanged and in stored order,
\* followed by exactly the canonical defaults whose key is not stored, in
\* default order; the result has at least as many entries as the default list
\* and is what storage holds afterwards (the write being accepted)
C12_ShortStorageMergesCanonicalDefaults ==
    (storage.kind = "json" /\ Len(JSONparse(storage)) < Len(CanonicalDefaults)) =>
        LET l == loadTokenConfig(storage, DEFAULT_TOKENS, TRUE) IN
        /\ l.tokens = JSONparse(storage) \o MissingCanonicalDefaults(JSONparse(storage))
        /\ Len(l.tokens) >= Len(CanonicalDefaults)
        /\ l.storage = JSONstringify(l.tokens)

\* C13: when the persisted value cannot be deserialized, loadTokenConfig
\* returns the canonical default list, writes nothing and leaves the persisted
\* value exactly as it was
C13_UnparseableStorageReturnsCanonicalDefaults ==
    storage.kind = "unparseable" =>
        \A canWrite \in BOOLEAN :
            LET l == loadTokenConfig(storage, DEFAULT_TOKENS, canWrite) IN
            /\ l.tokens = CanonicalDefaults
            /\ ~l.wrote
            /\ l.storage = storage

\* the (currency, issuer) pairs of a list
KeysOf(tokens) == {<<tokens[k].currency, tokens[k].issuer>> : k \in 1..Len(tokens)}

\* C14 as stated: an addToken that fails as a duplicate leaves persisted
\* storage unchanged, in every store state
C14_DuplicateAddLeavesStorageUnchanged ==
    [][(storeOp'.op = "add" /\ storeOp'.outcome = "DuplicateToken")
          => storage' = storage]_vars

\* C14: addToken with a valid token whose key is in the list its
\* loadTokenConfig returns fails as a duplicate and writes nothing of its own:
\* storage is left as that loadTokenConfig leaves it, which is unchanged when
\* the stored list is as long as the default list or longer, and the default
\* array is not touched
C14_DuplicateAddWritesOnlyWhatLoadWrites ==
    [][storeOp'.op = "add" =>
          LET key == <<storeOp'.currency, storeOp'.issuer>>
              Loads == {loadTokenConfig(storage, DEFAULT_TOKENS, w) : w \in BOOLEAN}
          IN
          /\ (validateXRPLAddress(key[2]) /\ \A l \in Loads : key \in KeysOf(l.tokens))
                => storeOp'.outcome = "DuplicateToken"
          /\ storeOp'.outcome = "DuplicateToken" =>
                /\ \E l \in Loads : key \in KeysOf(l.tokens) /\ storage' = l.storage
                /\ DEFAULT_TOKENS' = DEFAULT_TOKENS
                /\ (storage.kind = "json"
                    /\ Len(JSONparse(storage)) >= Len(DEFAULT_TOKENS))
                      => storage' = storage]_vars

\* an addToken of a default entry's key was refused as a duplicate and storage
\* holds the seeded default list
C14_Witness ==
    /\ storeOp.op = "add" /\ storeOp.outcome = "DuplicateToken"
    /\ <<storeOp.currency, storeOp.issuer>> \in KeysOf(CanonicalDefaults)
    /\ storage = JSONstringify(CanonicalDefaults)

\* C15 as stated: an updateToken that fails with invalid-address, not-found or
\* duplicate-token leaves persisted storage unchanged
C15_FailedUpdateLeavesStorageUnchanged ==
    [][(storeOp'.op = "update"
        /\ storeOp'.outcome \in {"InvalidAddress", "NotFound", "DuplicateToken"})
          => storage' = storage]_vars

\* C15: updateToken fails with invalid-address if the new issuer is invalid,
\* otherwise with not-found if the list its loadTokenConfig returns has no entry
\* with the old key, otherwise with duplicate-token if an entry at another
\* position has the new key; with an invalid address storage is unchanged, in
\* the other two failures it is left as that loadTokenConfig leaves it; on
\* success exactly the entry at the old key's position is replaced and every
\* other entry and the order are kept
C15_UpdateOutcomeAndInPlaceReplacement ==
    [][storeOp'.op = "update" =>
          LET old == <<storeOp'.currency, storeOp'.issuer>>
              new == storeOp'.newToken
          IN
          IF ~validateXRPLAddress(new.issuer)
          THEN storeOp'.outcome = "InvalidAddress" /\ storage' = storage
          ELSE \E w \in BOOLEAN :
                  LET l == loadTokenConfig(storage, DEFAULT_TOKENS, w)
                      At(key) == {k \in 1..Len(l.tokens) :
                                    <<l.tokens[k].currency, l.tokens[k].issuer>> = key}
                  IN
                  IF At(old) = {}
                  THEN storeOp'.outcome = "NotFound" /\ storage' = l.storage
                  ELSE LET pos == CHOOSE k \in At(old) : \A j \in At(old) : k <= j IN
                       IF At(<<new.currency, new.issuer>>) \ {pos} # {}
                       THEN storeOp'.outcome = "DuplicateToken" /\ storage' = l.storage
                       ELSE /\ storeOp'.outcome \in {"ok", "PersistenceError"}
                            /\ storeOp'.outcome = "ok" =>
                                  /\ storage'.kind = "json"
                                  /\ Len(JSONparse(storage')) = Len(l.tokens)
                                  /\ \A k \in 1..Len(l.tokens) :
                                        JSONparse(storage')[k] =
                                            IF k = pos THEN new ELSE l.tokens[k]]_vars

\* an updateToken succeeded on an entry that is not the first of the list
C15_Witness ==
    /\ storeOp.op = "update" /\ storeOp.outcome = "ok"
    /\ storage.kind = "json"
    /\ \E k \in 2..Len(JSONparse(storage)) : JSONparse(storage)[k] = storeOp.newToken

\* C27: the canonical default list is constant: no sequence of
\* loadTokenConfig, addToken, updateToken and removeToken calls, successful or
\* failing, on empty, unreadable or write-rejecting storage, changes its
\* length or any of its entries
C27_DefaultListConstant ==
    /\ Len(DEFAULT_TOKENS) = Len(CanonicalDefaults)
    /\ \A k \in 1..Len(CanonicalDefaults) : DEFAULT_TOKENS[k] = CanonicalDefaults[k]

----------------------------------------------------------------------------
(* Claims about the currency codec, checked under CodecSpec *)

\* C16: for every string that is not exactly 40 units long or does not consist
\* of hexadecimal digits only, hexToString returns the string unchanged; in
\* particular for a 40-unit string with a unit that is no hexadecimal digit
C16_NonHexReturnedUnchanged ==
    (codec.fn = "hexToString" /\ ~IsHexCurrency(codec.arg))
        => codec.result = codec.arg

\* the bytes a text of hexadecimal digits writes, pair by pair
BytesOf(hex) ==
    [j \in 1..(Len(hex) \div 2) |->
        16 * DigitValue(hex[2 * j - 1]) + DigitValue(hex[2 * j])]

\* the bytes before the first zero byte, all of them if there is none
BeforeFirstZero(bytes) ==
    LET zeros == {k \in 1..Len(bytes) : bytes[k] = 0} IN
    IF zeros = {} THEN bytes
    ELSE SubSeq(bytes, 1, (CHOOSE k \in zeros : \A j \in zeros : k <= j) - 1)

\* the positions of a string that hold no whitespace
NonBlank(str) == {k \in 1..Len(str) : str[k] \notin WhiteSpaceUnits}

\* C17 as stated: for 40 hexadecimal digits hexToString returns the characters
\* of the bytes before the first zero byte with trailing whitespace removed and
\* leading whitespace kept, the digits themselves when that is empty, and
\* never the empty string
C17_DecodeKeepsLeadingWhitespace ==
    (codec.fn = "hexToString" /\ IsHexCurrency(codec.arg)) =>
        LET chars == BeforeFirstZero(BytesOf(codec.arg))
            stripped ==
                IF NonBlank(chars) = {} THEN <<>>
                ELSE SubSeq(chars, 1, CHOOSE k \in NonBlank(chars) :
                                          \A j \in NonBlank(chars) : k >= j)
        IN  /\ codec.result = IF stripped = <<>> THEN codec.arg ELSE stripped
            /\ codec.result # <<>>

\* C17: for 40 hexadecimal digits hexToString returns the characters of the
\* bytes before the first zero byte with leading and trailing whitespace
\* removed, the digits themselves when that is empty, and never the empty
\* string
C17_DecodeStripsBothEnds ==
    (codec.fn = "hexToString" /\ IsHexCurrency(codec.arg)) =>
        LET chars == BeforeFirstZero(BytesOf(codec.arg)) IN
        /\ codec.result # <<>>
        /\ IF NonBlank(chars) = {}
           THEN codec.result = codec.arg
           ELSE \E a, b \in NonBlank(chars) :
                   /\ \A k \in NonBlank(chars) : a <= k /\ k <= b
                   /\ codec.result = SubSeq(chars, a, b)

\* a currency code whose first byte is a space and which has a letter before
\* its first zero byte was decoded
C17_Witness ==
    /\ codec.fn = "hexToString"
    /\ IsHexCurrency(codec.arg)
    /\ BytesOf(codec.arg)[1] = 32
    /\ NonBlank(BeforeFirstZero(BytesOf(codec.arg))) # {}
    /\ Len(BeforeFirstZero(BytesOf(codec.arg))) < 20

\* C18: for a string of 3 units stringToHex returns the string; for every
\* other string, the empty one and those longer than 20 units included, the
\* result is exactly 40 upper-case hexadecimal digits of which the first
\* 2 * len(s) are the two-digit codes of the string's characters in order
C18_EncodeIsFortyUpperHexDigits ==
    codec.fn = "stringToHex" =>
        IF Len(codec.arg) = 3
        THEN codec.result = codec.arg
        ELSE /\ Len(codec.result) = 40
             /\ \A k \in 1..Len(codec.result) :
                   codec.result[k] \in (48..57) \cup (65..70)
             /\ \A k \in 1..Len(codec.arg) :
                   /\ 2 * k <= Len(codec.result)
                   /\ BytesOf(codec.result)[k] = codec.arg[k]

\* C29: hexToString(stringToHex(x)) = x for every string x of 1 to 20
\* characters whose codes are all in 1..255 and which neither begins nor ends
\* with whitespace
C29_DecodeOfEncodeIsIdentity ==
    (/\ codec.fn = "hexToString(stringToHex)"
     /\ Len(codec.arg) \in 1..20
     /\ \A k \in 1..Len(codec.arg) : codec.arg[k] \in 1..255
     /\ codec.arg[1] \notin WhiteSpaceUnits
     /\ codec.arg[Len(codec.arg)] \notin WhiteSpaceUnits)
        => codec.result = codec.arg

\* a string that is not 3 characters long, with a code below 16 and a space
\* inside, went through both functions
C29_Witness ==
    /\ codec.fn = "hexToString(stringToHex)"
    /\ Len(codec.arg) = 20
    /\ codec.arg[1] = 7
    /\ codec.arg[2] = 32
    /\ codec.result = codec.arg

----------------------------------------------------------------------------
(* Claims about the whitelist matcher, checked under MatcherSpec *)

\* the 160-bit code of a plain code of at most 20 characters: two upper-case
\* hexadecimal digits per character, zero bytes after them
HexEncodingOf(x) == HexText(UnitsOf(x) \o Repeat(0, 20 - Len(UnitsOf(x))))

\* C19: matching is symmetric in which side carries the hex encoding: for a
\* plain code x with 40-hex encoding h and an issuer i, observed h against an
\* entry (x, i) gives the result that observed x against an entry (h, i) gives
C19_MatchingSymmetricInHexSide ==
    match.called =>
        \A k \in 1..Len(match.tokens) :
            LET e == match.tokens[k]
                x == e.currency
                h == match.currency
            IN  (Len(UnitsOf(x)) <= 20 /\ UnitsOf(h) = HexEncodingOf(x)) =>
                    isTokenWhitelisted(<<e>>, h, match.issuer)
                        = isTokenWhitelisted(<<Token(h, e.issuer, e.customName)>>,
                                             x, match.issuer)

\* C20: isTokenWhitelisted(c, i) is true exactly if some entry e of the list
\* has trim(lowercase(e.issuer)) = trim(lowercase(i)) and, c being 40 hex
\* digits, lowercase(hexToString(c)) = lowercase(e.currency) or lowercase(c) =
\* lowercase(stringToHex(e.currency)), or, c not being 40 hex digits,
\* lowercase(c) = lowercase(e.currency); the result is the same for every
\* order of the list
C20_WhitelistedIffSomeEntryMatches ==
    match.called =>
        LET c == UnitsOf(match.currency)
            i == UnitsOf(match.issuer)
            Matching(e) ==
                /\ trim(toLowerCase(UnitsOf(e.issuer))) = trim(toLowerCase(i))
                /\ \/ /\ IsHexCurrency(c)
                      /\ \/ toLowerCase(hexToString(c))
                                = toLowerCase(UnitsOf(e.currency))
                         \/ toLowerCase(c)
                                = toLowerCase(stringToHex(UnitsOf(e.currency)))
                   \/ /\ ~IsHexCurrency(c)
                      /\ toLowerCase(c) = toLowerCase(UnitsOf(e.currency))
            n == Len(match.tokens)
        IN  /\ match.result = (\E k \in 1..n : Matching(match.tokens[k]))
            /\ \A p \in Permutations(1..n) :
                  isTokenWhitelisted([k \in 1..n |-> match.tokens[p[k]]],
                                     match.currency, match.issuer)
                      = match.result

\* a 160-bit code was matched against a default entry and a user's entry, the
\* issuer written in lower case between spaces
C20_Witness ==
    /\ match.called
    /\ match.result
    /\ match.currency = Cur_HexGreedyJEW
    /\ match.issuer = Addr_GreedyIssuerLowerPadded
    /\ Len(match.tokens) > Len(CanonicalDefaults)

\* C28: isTokenWhitelisted(c, i) is true whenever the list holds an entry whose
\* currency is exactly c and whose issuer is exactly i, also when c is 40
\* hexadecimal digits that the entry holds verbatim
C28_ExactEntryIsWhitelisted ==
    (match.called
     /\ <<match.currency, match.issuer>> \in KeysOf(match.tokens))
        => match.result

----------------------------------------------------------------------------
(* Claims about the ledger client, checked under RpcSpec *)

Min(a, b) == IF a <= b THEN a ELSE b
Failed(o) == o.error # NoError
HttpFailure(o) == o.resp.kind = "http" /\ ~ResponseOk(o.resp)
LastOutcome(c) == c.outcomes[Len(c.outcomes)]
FailedCount(c) == Cardinality({n \in 1..Len(c.outcomes) : Failed(c.outcomes[n])})
LastServerIndex == Len(XRPL_SERVERS) - 1
ValidCall(fns) == call.fn \in fns /\ validateXRPLAddress(call.account)
InProgress(c) == c.pc \in {"attempt", "fetching", "errorText", "backoff"}

\* C3: a fetch called with an address the validator rejects raises the
\* invalid-address error having sent no request and waited for no timer, and the
\* step that raises it leaves the server cursor as it was
C3_InvalidAddressShortCircuits ==
    /\ []((call.fn # "none" /\ ~validateXRPLAddress(call.account)) =>
             /\ call.pc = "raised"
             /\ call.error.type = "InvalidAddress"
             /\ call.sent = <<>>
             /\ call.outcomes = <<>>
             /\ call.waits = <<>>)
    /\ [][(call' # call /\ call'.fn # "none" /\ ~validateXRPLAddress(call'.account))
             => currentServerIndex' = currentServerIndex]_vars

\* an NFT fetch for "abc" was refused after the cursor had moved to the last server
C3_Witness ==
    /\ call.fn = "fetchAccountNFTs" /\ call.account = Addr_abc
    /\ call.pc = "raised" /\ call.error = EntryAddressError
    /\ currentServerIndex = LastServerIndex

\* C4: a fetchAccountInfo or fetchAccountLines call with a valid address sends at
\* most 3 requests; no attempt follows a successful one and what the call returns
\* is that attempt's result; when 3 attempts have failed the call raises the
\* error of the third
C4_ThreeAttemptsLastErrorWins ==
    ValidCall({"fetchAccountInfo", "fetchAccountLines"}) =>
        /\ Len(call.sent) <= 3
        /\ Len(call.outcomes) <= 3
        /\ \A n \in 1..(Len(call.outcomes) - 1) : Failed(call.outcomes[n])
        /\ (call.outcomes # <<>> /\ ~Failed(LastOutcome(call))) =>
              /\ ~InProgress(call)
              /\ Len(call.sent) = Len(call.outcomes)
        /\ call.pc = "returned" =>
              /\ call.outcomes # <<>>
              /\ ~Failed(LastOutcome(call))
              /\ call.result = IF LastOutcome(call).resp.present
                               THEN LastOutcome(call).resp.value
                               ELSE <<>>
        /\ (Len(call.outcomes) = 3 /\ Failed(call.outcomes[3])) =>
              /\ call.pc = "raised"
              /\ call.error = call.outcomes[3].error

\* three attempts failed with three different errors and the third was raised
C4_Witness ==
    /\ ValidCall({"fetchAccountInfo"})
    /\ call.pc = "raised"
    /\ Len(call.outcomes) = 3
    /\ call.outcomes[1].error.type = "NetworkError"
    /\ call.outcomes[2].error.type = "ServerError"
    /\ call.outcomes[3].error.type = "ApiError"
    /\ call.error.type = "ApiError"

\* C5: the retry wrapper waits 1000 after the first failed attempt and 2000
\* after the second, never before the first attempt and never after the third
\* failure; a call that succeeds on its third attempt has waited 1000 then 2000
C5_BackoffDelays ==
    /\ Len(call.waits) = Min(FailedCount(call), 2)
    /\ \A n \in 1..Len(call.waits) : call.waits[n] = 1000 * (2 ^ (n - 1))
    /\ (call.pc = "returned" /\ Len(call.outcomes) = 3 /\ ~Failed(call.outcomes[3]))
          => call.waits = <<1000, 2000>>

\* trust lines fetched on the third attempt after the transport failed twice
C5_Witness ==
    /\ ValidCall({"fetchAccountLines"})
    /\ call.pc = "returned"
    /\ Len(call.outcomes) = 3
    /\ call.outcomes[1].resp.kind = "reject"
    /\ call.outcomes[2].resp.kind = "reject"
    /\ call.result = SampleLinesHex
    /\ call.waits = <<1000, 2000>>

C7_CursorMonotone ==
    /\ [](currentServerIndex \in 0..(Len(XRPL_SERVERS) - 1))
    /\ [][currentServerIndex' >= currentServerIndex]_vars

\* a call started with the cursor at the last server succeeded at once and the
\* cursor is still there
C7_Witness ==
    /\ currentServerIndex = LastServerIndex
    /\ call.pc = "returned"
    /\ call.sent = <<LastServerIndex>>
    /\ ~Failed(LastOutcome(call))

\* C8 as stated: a fetchAccountNFTs call with a valid address sends at most one
\* request and waits for no backoff timer
C8_NftSingleAttempt ==
    ValidCall({"fetchAccountNFTs"}) =>
        /\ Len(call.sent) <= 1
        /\ call.waits = <<>>

\* C8 amended: a fetchAccountNFTs call with a valid address goes through the
\* retry wrapper like the other two: at most 3 requests and 2 backoff waits, and
\* it gives up (returning the empty list) only after the third failed attempt
C8_NftRetriedLikeTheOthers ==
    ValidCall({"fetchAccountNFTs"}) =>
        /\ Len(call.sent) <= 3
        /\ Len(call.waits) <= 2
        /\ (~InProgress(call) /\ call.outcomes # <<>> /\ Failed(LastOutcome(call))) =>
              /\ Len(call.sent) = 3
              /\ call.waits = <<1000, 2000>>

\* an NFT fetch ended after three failed requests and two waits
C8_Witness ==
    /\ ValidCall({"fetchAccountNFTs"})
    /\ call.pc = "returned"
    /\ Len(call.sent) = 3
    /\ Failed(call.outcomes[3])
    /\ call.waits = <<1000, 2000>>

\* C9: fetchAccountNFTs with a valid address never raises; it returns the
\* response's account_nfts when the request succeeded and carried the field,
\* and the empty list in every other case
C9_NftNeverRaises ==
    ValidCall({"fetchAccountNFTs"}) =>
        /\ call.pc # "raised"
        /\ call.error = NoError
        /\ call.pc = "returned" =>
              /\ call.outcomes # <<>>
              /\ call.result =
                    IF ~Failed(LastOutcome(call)) /\ LastOutcome(call).resp.present
                    THEN LastOutcome(call).resp.value
                    ELSE <<>>

\* an NFT fetch whose last attempt got an API error payload returned the empty list
C9_Witness ==
    /\ ValidCall({"fetchAccountNFTs"})
    /\ call.pc = "returned"
    /\ LastOutcome(call).error.type = "ApiError"
    /\ call.result = <<>>

\* C10 as stated: fetchAccountInfo and fetchAccountLines raise an error to the
\* caller only after 3 requests
C10_EveryFailureRetried ==
    (ValidCall({"fetchAccountInfo", "fetchAccountLines"}) /\ call.pc = "raised")
        => Len(call.sent) = 3

\* C10 amended: a failed attempt of fetchAccountInfo or fetchAccountLines
\* (network error, non-success status, API error payload, response that is no
\* JSON or has no result field) is followed by another attempt until 3 have been
\* made, and only the third one's error is raised; a successful response of
\* account_info without account_data is not retried: the call raises the
\* missing-field error right after that attempt
C10_RetriedExceptMissingAccountData ==
    ValidCall({"fetchAccountInfo", "fetchAccountLines"}) =>
        /\ (call.outcomes # <<>> /\ Failed(LastOutcome(call))
               /\ Len(call.outcomes) < 3) => InProgress(call)
        /\ call.pc = "raised" =>
              \/ /\ Len(call.sent) = 3
                 /\ \A n \in 1..3 : Failed(call.outcomes[n])
                 /\ call.error = call.outcomes[3].error
              \/ /\ call.fn = "fetchAccountInfo"
                 /\ call.error = MissingFieldError
                 /\ ~Failed(LastOutcome(call))
                 /\ ~LastOutcome(call).resp.present

\* an API error, a response without result and a network error, in that order,
\* used up the three attempts
C10_Witness ==
    /\ ValidCall({"fetchAccountLines"})
    /\ call.pc = "raised"
    /\ Len(call.sent) = 3
    /\ call.outcomes[1].error.type = "ApiError"
    /\ call.outcomes[2].error.type = "MalformedResponse"
    /\ call.outcomes[3].error.type = "NetworkError"
    /\ call.error = call.outcomes[3].error

----------------------------------------------------------------------------
(* Claims about the token detail view, checked under MetricsSpec *)

\* the fetches of the detail view that have begun and neither returned nor
\* raised
RunsFetching == {r \in Runs : InProgress(tokenMetrics.runs[r].call)}

\* C21: at most one fetch is in progress at any time: no view begins a fetch
\* while an earlier fetch has neither returned nor raised
C21_OneFetchInProgress == Cardinality(RunsFetching) <= 1

\* the token is the one the token list builds from the line
BuiltFrom(token, line) ==
    /\ token.currency = displayCurrency(line)
    /\ token.issuer = line.account

\* C25: when loadHoldings has ended, every wallet whose fetch returned lines
\* that include the line the selected token was built from has a holding,
\* also when that line carries a 160-bit code the list decoded
C25_HoldingForEveryWalletWithTheLine ==
    LET run == tokenMetrics.runs["loadHoldings"] IN
    run.pc = "done" =>
        \A n \in 1..Len(run.fetches) :
            (/\ run.fetches[n].returned
             /\ \E k \in 1..Len(run.fetches[n].lines) :
                    BuiltFrom(tokenMetrics.token, run.fetches[n].lines[k]))
                => \E h \in 1..Len(tokenMetrics.holdings) :
                       tokenMetrics.holdings[h].name = run.fetches[n].wallet

\* C26: with requests of several runs in progress, a step moves the cursor
\* from k to k + 1 only when it ends a request that was sent to server k and
\* was answered with a non-success status
C26_CursorFollowsFailureOfItsServer ==
    [][currentServerIndex' # currentServerIndex =>
          /\ currentServerIndex' = currentServerIndex + 1
          /\ \E r \in Runs :
                /\ tokenMetrics.runs[r].call.pc = "errorText"
                /\ ~ResponseOk(tokenMetrics.runs[r].call.response)
                /\ tokenMetrics.runs[r].call.server = currentServerIndex
                /\ tokenMetrics'.runs[r] # tokenMetrics.runs[r]]_vars

----------------------------------------------------------------------------
(* Claims about the token list view, checked under TokenListSpec *)

\* the token is the one loadTokens builds from line k of logged fetch f
TokenOfLogged(token, f, k) ==
    /\ BuiltFrom(token, f.lines[k])
    /\ token.balance = f.lines[k].balance
    /\ token.limit = f.lines[k].limit
    /\ token.account = f.wallet

\* the lines of the logged fetches that the filter let through
LoggedWhitelisted(fetches) ==
    {<<n, k>> \in (1..Len(fetches)) \X (1..Len(SampleLinesHex)) :
        /\ fetches[n].returned
        /\ k <= Len(fetches[n].lines)
        /\ fetches[n].verdicts[k]}

ErrorsOf(walletErrors, name) ==
    {e \in 1..Len(walletErrors) : walletErrors[e].wallet = name}

\* C22: when a run of loadTokens has ended, every monitored wallet has been
\* fetched whatever became of the fetches before it, tokens holds a token for
\* every whitelisted line of every wallet whose fetch returned, and walletErrors
\* holds one entry for every wallet whose fetch raised and none for the others
C22_TokensAndErrorsTogether ==
    tokenList.pc = "done" =>
        /\ ~tokenList.loading
        /\ Len(tokenList.fetches) = Len(WALLETS)
        /\ \A n \in 1..Len(tokenList.fetches) :
              LET f == tokenList.fetches[n] IN
              /\ f.wallet = WALLETS[n].name
              /\ Cardinality(ErrorsOf(tokenList.walletErrors, f.wallet))
                    = IF f.returned THEN 0 ELSE 1
              /\ f.returned =>
                    \A k \in 1..Len(f.lines) :
                        f.verdicts[k] =>
                            \E t \in 1..Len(tokenList.tokens) :
                                TokenOfLogged(tokenList.tokens[t], f, k)

\* the first wallet's fetch raised, the second wallet's lines are shown
C22_Witness ==
    /\ tokenList.pc = "done"
    /\ ~tokenList.fetches[1].returned
    /\ tokenList.fetches[2].returned
    /\ tokenList.tokens # <<>>
    /\ Len(tokenList.walletErrors) = 1

\* C23: when a run of loadTokens has ended, tokens holds one token for each
\* fetched line on which isTokenWhitelisted returned true, built from that
\* line, and nothing else; the verdicts are those of the stored whitelist
C23_TokensAreTheWhitelistedLines ==
    tokenList.pc = "done" =>
        LET fetches == tokenList.fetches
            whitelist == loadTokenConfig(storage, DEFAULT_TOKENS, TRUE).tokens
        IN
        /\ Len(tokenList.tokens) = Cardinality(LoggedWhitelisted(fetches))
        /\ \A t \in 1..Len(tokenList.tokens) :
              \E p \in LoggedWhitelisted(fetches) :
                  TokenOfLogged(tokenList.tokens[t], fetches[p[1]], p[2])
        /\ \A p \in LoggedWhitelisted(fetches) :
              \E t \in 1..Len(tokenList.tokens) :
                  TokenOfLogged(tokenList.tokens[t], fetches[p[1]], p[2])
        /\ \A n \in 1..Len(fetches) :
              \A k \in 1..Len(fetches[n].lines) :
                  fetches[n].verdicts[k] =
                      isTokenWhitelisted(whitelist,
                                         fetches[n].lines[k].currency,
                                         fetches[n].lines[k].account)

\* a wallet returned a whitelisted line and a line the whitelist does not
\* name: the one is shown, the other is not
C23_Witness ==
    /\ tokenList.pc = "done"
    /\ tokenList.fetches[1].returned
    /\ tokenList.fetches[1].verdicts = <<TRUE, FALSE>>
    /\ ~tokenList.fetches[2].returned
    /\ Len(tokenList.tokens) = 1

\* C24: a fetch sends at most maxRetries requests and waits for at most
\* maxRetries - 1 timers; every fetch in progress (of any of the three fetch
\* functions) returns or raises in the end; every run of loadTokens ends with
\* loading false
C24_FetchesAndLoadTokensEnd ==
    /\ [](\A c \in {call, tokenList.call} :
             /\ Len(c.sent) <= maxRetries
             /\ Len(c.waits) <= maxRetries - 1)
    /\ InProgress(call) ~> (call.pc \in {"returned", "raised"})
    /\ tokenList.loading ~> (tokenList.pc = "done" /\ ~tokenList.loading)

\* loadTokens has ended and the list has gone; an NFT fetch of the next view
\* ended after the last attempt allowed
C24_Witness ==
    /\ tokenList.pc = "unmounted"
    /\ call.fn = "fetchAccountNFTs"
    /\ call.pc = "returned"
    /\ Len(call.sent) = maxRetries
    /\ Len(call.waits) = maxRetries - 1

====
